---------------------------- MODULE Spec2Model ----------------------------
(***************************************************************************)
(* Model of the oVice <-> realtime voice AI bridge.                        *)
(*                                                                         *)
(*   SpecClient : GeminiLiveClient / OpenAIRealtimeClient connection       *)
(*                lifecycle over the `ws` transport.                       *)
(*   SpecBridge : AudioBridge (Node side) together with the page state the *)
(*                init script owns (synthetic microphone queue, pre-relay  *)
(*                FIFO, capture callback).                                 *)
(*   SpecFifo   : the page-side pre-relay FIFO alone, driven up to its     *)
(*                real capacity.                                           *)
(*   SpecMic    : the synthetic microphone of the init script.             *)
(*   SpecBackoff: the reconnect policy of GeminiLiveClient over a run long *)
(*                enough to reach the backoff cap.                         *)
(*   FairSpecRecover : recovery after a transport drop, with the timer     *)
(*                and socket events scheduled fairly.                      *)
(*   SpecTap    : completeSetup() and stop() of the AudioBridge.           *)
(*   SpecPeer   : the page's peer connections around the inbound tap.      *)
(*   SpecFactory: createRealtimeClient over the configurations.            *)
(*   SpecGum    : the getUserMedia override across page navigations.       *)
(*   SpecPcm    : the PCM16 conversions of the page over sample values.     *)
(*   SpecFailure: connection failures of a client with an error handler.  *)
(*   SpecHandlers : the provider messages a connected client receives and *)
(*                the handlers they reach.                                 *)
(***************************************************************************)
EXTENDS Integers, Sequences, FiniteSets, TLC

(***************************************************************************)
(* Bounds of the model.                                                    *)
(***************************************************************************)
\* transports one client may create in a run
MaxSockets == 2
\* audio messages a client may put on the wire in a run
MaxSends == 2

\* AI audio fragments the provider may deliver in a run
MaxAiChunks == 2
\* blocks the page's capture callback may produce in a run
MaxCaptured == 2
\* page navigations (execution-context teardowns) in a run
MaxNavigations == 1
\* block callbacks of the synthetic microphone in a run
MaxMicTicks == 3
\* the pre-relay FIFO alone: blocks already queued at the start, and the
\* blocks the capture callback may have produced at the end
FifoPrefill == 998
MaxFifoCaptured == 1002
\* transports of the reconnect-policy run (the backoff is capped from the
\* 15th consecutive attempt on)
MaxBackoffSockets == 16
\* stop() calls, peer connections of the page and track events in a run
MaxStops == 2
MaxPeerConnections == 2
MaxTracks == 2
\* handlers registered per slot, audio fragments received, parts of one
\* provider message, unparseable messages and provider error events in a run
MaxHandlers == 2
MaxFragments == 2
MaxParts == 2
MaxMalformed == 1
MaxErrorCalls == 1
\* distinct values a configuration field may take, and createRealtimeClient
\* calls in a run
MaxFieldValues == 2
MaxFactoryCalls == 2
\* getUserMedia calls of the page in a run
MaxGumCalls == 3
\* conversation prompts written by startConversation()
MaxConversations == 2
\* blocks the capture graph produces around a reconnect
MaxRelayCaptured == 3
\* captured samples tried on each side of -1, -3/4, 0, 3/4 and 1, in steps
\* of 1/SampleDen
SampleRadius == 3

Sockets == 1..MaxSockets

Min(a, b) == IF a < b THEN a ELSE b
Max(a, b) == IF a > b THEN a ELSE b

(***************************************************************************)
(* State of one Streaming Voice Client.                                    *)
(***************************************************************************)
VARIABLES
  provider,               \* "GEMINI" | "OPENAI": which class was constructed
  ws,                     \* this.ws: 0 for null, else the socket it refers to
  rs,                     \* readyState of every socket created so far
  nSockets,               \* sockets created so far (new WebSocket(url))
  ready,                  \* isSessionStarted (Gemini) / isReady (OpenAI)
  isIntentionallyClosed,  \* Gemini only
  reconnectAttempts,      \* Gemini only
  timers,                 \* pending setTimeout callbacks of attemptReconnect
  audioSendCount,         \* this.audioSendCount
  sent,                   \* per socket: the messages written with ws.send
  acked,                  \* per socket: ready acknowledgment received on it
  closeCalled,            \* close() was called, no caller connect() since
  reconnectConnectCalls,  \* connect() calls made by the reconnect timer
  suppressed,             \* a reconnect timer fired and found the closed flag
  reconnectLog,           \* Gemini: 0 per 'open' handled, else the delay
                          \* passed to setTimeout by attemptReconnect
  connectReturnedEarly    \* some connect() found the transport open

(***************************************************************************)
(* Callbacks of one Streaming Voice Client and what was delivered to them. *)
(***************************************************************************)
VARIABLES
  messageHandler,  \* this.messageHandler: 0 for null, else the handler
  errorHandler,    \* this.errorHandler: 0 for null, else the handler
  audioCalls,      \* invocations of audio handlers, in order: handler h
                   \* received fragment frag after bad unparseable messages
  fragN,           \* audio fragments received from the provider so far
  unheard,         \* fragments that arrived while no handler was registered
  malformedN,      \* unparseable provider messages received so far
  audioRegs,       \* onAudioMessage registrations so far; handlers are
                   \* numbered in registration order
  errorRegs,       \* onError registrations so far
  errorCalls,      \* invocations of error handlers: [h, src], in order
  promise          \* per socket: the promise of the connect() that made it

handlerVars == <<messageHandler, errorHandler, audioCalls, fragN, unheard,
                 malformedN, audioRegs, errorRegs>>

clientVars == <<provider, ws, rs, nSockets, ready, isIntentionallyClosed,
                reconnectAttempts, timers, audioSendCount, sent, acked,
                closeCalled, reconnectConnectCalls, suppressed,
                reconnectLog, connectReturnedEarly, handlerVars, errorCalls,
                promise>>

(***************************************************************************)
(* State of the AudioBridge (Node side) and of the page it drives.         *)
(***************************************************************************)
VARIABLES
  bpc,             \* where the bridge is: "new", "handler" (setupBeforeLogin
                   \* done), "flush" / "expose" / "drain" / "tap" (inside
                   \* completeSetup), "running"
  isRunning,       \* this.isRunning
  audioDataQueue,  \* this.audioDataQueue: AI chunks held on the Node side
  flushIter,       \* position of completeSetup's for-of over audioDataQueue
  navigating,      \* the page's execution context is being torn down
  navs,            \* navigations so far
  micQueue,        \* window.__geminiAudioQueue of the current document
  remoteQueue,     \* window.__remoteAudioQueue of the current document
  captureOn,       \* a capture graph of the init script is processing
  relayExposed,    \* window.sendAudioToGemini exists
  aiN,             \* AI fragments delivered by the client so far
  capN,            \* blocks produced by the capture callback so far
  micPushLog,      \* every chunk appended to the page queue, in order
  heldEver,        \* chunks whose bridge call failed on a destroyed context
  relayLog,        \* chunks the relay function received, in order
  sendAudioCalls,  \* chunks the relay passed to client.sendAudio, in order
  drainDone,       \* the drain of the pre-relay FIFO ran in the page
  drainedEntries,  \* what the FIFO held when it was drained
  micInit,         \* window.__geminiMicStream exists (initGeminiStream ran)
  micOut,          \* the blocks the synthetic microphone emitted, in order
  chunkLen         \* per AI chunk: the PCM16 samples it carries

micVars == <<micInit, micOut, chunkLen>>

VARIABLES
  tapMode,        \* the inbound tap completeSetup installed in the current
                  \* document: "none", "element" or "webrtc"
  cleanupSet,     \* window.__oviceAudioCleanup exists
  cleanupCalls,   \* times the page-side cleanup callback ran
  stopCalls,      \* stop() calls so far
  stopPageCalls,  \* page.evaluate calls made by stop()
  stopThrew,      \* the last stop() rejected
  pcs,            \* the peer connections of the current document
  graphs          \* per track event: the capture graphs it built

tapVars == <<tapMode, cleanupSet, cleanupCalls, stopCalls, stopPageCalls,
             stopThrew, pcs, graphs>>

(***************************************************************************)
(* State of the units that are modelled on their own: the client factory,  *)
(* the sample conversions of the page and the getUserMedia override.       *)
(***************************************************************************)
VARIABLES
  config,       \* the RealtimeVoiceConfig handed to createRealtimeClient
  created,      \* what the createRealtimeClient calls returned or threw
  inputData,    \* a Float32 sample of a captured block, as a fraction
  pcm16,        \* the Int16Array elements the capture paths stored for it
  outputData,   \* the Float32 samples the synthetic microphone decoded
  micBuildLog,  \* per initGeminiStream run: the document it ran in
  gumLog,       \* per getUserMedia call: its constraints and its result
  stopped,      \* file recorder: the stopped flag of startAudioCapture
  recPc,        \* file recorder: where its stop() call is
  recChunks,    \* file recorder: oviceOnAudioChunk calls made by the page
  recWrites,    \* file recorder: the chunks handed to writer.write
  writerEnds,   \* file recorder: the calls of writer.end
  recStops      \* file recorder: the calls of stop()

recVars == <<stopped, recPc, recChunks, recWrites, writerEnds, recStops>>

unitVars == <<config, created, inputData, pcm16, outputData, micBuildLog,
              gumLog, recVars>>

bridgeVars == <<bpc, isRunning, audioDataQueue, flushIter, navigating, navs,
                micQueue, remoteQueue, captureOn, relayExposed, aiN, capN,
                micPushLog, heldEver, relayLog, sendAudioCalls, drainDone,
                drainedEntries, micVars, tapVars, unitVars>>

\* program constants of GeminiLiveClient
ReconnectDelay == 2000
MaxReconnectDelay == 30000
\* capacity of window.__remoteAudioQueue
RemoteQueueCap == 1000
\* bufferSize of the ScriptProcessorNodes: samples per block
BufferSize == 4096
\* the factors of the capture-side PCM16 conversion (0x8000, 0x7FFF) and
\* the divisor of the synthetic microphone's decoder
NegativeScale == 32768
PositiveScale == 32767
DecodeScale == 32768
\* Float32 samples are fractions num / den; captured samples are taken on
\* the grid of 1/65536, which Float32 represents exactly
SampleDen == 65536
\* the default of AudioBridgeConfig.inputSampleRate and the rates the two
\* classes return from getPreferredSampleRate()
DefaultInputSampleRate == 16000
GeminiSampleRate == 24000
OpenAISampleRate == 24000

\* left ?? right, with 0 for undefined
Nullish(left, right) == IF left = 0 THEN right ELSE left

AiChunks == 1..MaxAiChunks

Range(q) == {q[i] : i \in 1..Len(q)}

\* the entries of q that belong to S, in q's order
RECURSIVE Restrict(_, _)
Restrict(q, S) ==
  IF q = <<>> THEN <<>>
  ELSE IF Head(q) \in S THEN <<Head(q)>> \o Restrict(Tail(q), S)
       ELSE Restrict(Tail(q), S)

StrictlyIncreasing(q) == \A i, j \in 1..Len(q) : i < j => q[i] < q[j]

\* startAudioCapture has returned its controller: the stream is open, the
\* flag is false and nothing was written
InitRecVars ==
  /\ stopped = FALSE
  /\ recPc = "idle"
  /\ recChunks = 0
  /\ recWrites = <<>>
  /\ writerEnds = 0
  /\ recStops = 0

\* no configuration was loaded and no sample was captured
InitUnitVars ==
  /\ config = [provider |-> "NONE", gemini |-> <<>>, openai |-> <<>>]
  /\ created = <<>>
  /\ inputData = [num |-> 0, den |-> 1]
  /\ pcm16 = <<>>
  /\ outputData = <<>>
  /\ micBuildLog = <<>>
  /\ gumLog = <<>>
  /\ InitRecVars

InitTapVars ==
  /\ tapMode = "none"
  /\ cleanupSet = FALSE
  /\ cleanupCalls = 0
  /\ stopCalls = 0
  /\ stopPageCalls = 0
  /\ stopThrew = FALSE
  /\ pcs = <<>>
  /\ graphs = <<>>

InitBridgeState ==
  /\ bpc = "new"
  /\ isRunning = FALSE
  /\ audioDataQueue = <<>>
  /\ flushIter = 0
  /\ navigating = FALSE
  /\ navs = 0
  /\ micQueue = <<>>
  /\ remoteQueue = <<>>
  /\ captureOn = FALSE
  /\ relayExposed = FALSE
  /\ aiN = 0
  /\ capN = 0
  /\ micPushLog = <<>>
  /\ heldEver = {}
  /\ relayLog = <<>>
  /\ sendAudioCalls = <<>>
  /\ drainDone = FALSE
  /\ drainedEntries = <<>>
  /\ micInit = FALSE
  /\ micOut = <<>>
  /\ chunkLen = [c \in AiChunks |-> 0]
  /\ InitTapVars

InitBridgeVars ==
  /\ InitBridgeState
  /\ InitUnitVars

IsOpen == ws # 0 /\ rs[ws] = "OPEN"

\* isConnected() of both classes
IsConnected == IsOpen /\ ready

\* the transport is open and the provider acknowledged the session on it
ReadyOnCurrent == IsOpen /\ acked[ws]

Send(s, kind) == sent' = [sent EXCEPT ![s] = Append(@, kind)]

InitHandlerVars ==
  /\ messageHandler = 0
  /\ errorHandler = 0
  /\ audioCalls = <<>>
  /\ fragN = 0
  /\ unheard = {}
  /\ malformedN = 0
  /\ audioRegs = 0
  /\ errorRegs = 0
  /\ errorCalls = <<>>

InitClientVars ==
  /\ InitHandlerVars
  /\ promise = [s \in Sockets |-> "none"]
  /\ ws = 0
  /\ rs = [s \in Sockets |-> "NEW"]
  /\ nSockets = 0
  /\ ready = FALSE
  /\ isIntentionallyClosed = FALSE
  /\ reconnectAttempts = 0
  /\ timers = 0
  /\ audioSendCount = 0
  /\ sent = [s \in Sockets |-> <<>>]
  /\ acked = [s \in Sockets |-> FALSE]
  /\ closeCalled = FALSE
  /\ reconnectConnectCalls = 0
  /\ suppressed = FALSE
  /\ reconnectLog = <<>>
  /\ connectReturnedEarly = FALSE

\* mutant of ConnectBody: connect() does not test the transport
ConnectBody_AlwaysOpens ==
  /\ nSockets + 1 \in DOMAIN rs
  /\ isIntentionallyClosed' =
       (IF provider = "GEMINI" THEN FALSE ELSE isIntentionallyClosed)
  /\ nSockets' = nSockets + 1
  /\ rs' = [rs EXCEPT ![nSockets + 1] = "CONNECTING"]
  /\ ws' = nSockets + 1
  /\ promise' = [promise EXCEPT ![nSockets + 1] = "pending"]
  /\ UNCHANGED connectReturnedEarly

(***************************************************************************)
(* connect(): returns at once when the current transport is open,          *)
(* otherwise clears the intentional-close flag (Gemini) and creates a new  *)
(* socket whose handlers close over the client.                            *)
(***************************************************************************)
ConnectBody ==
  IF IsOpen
  THEN /\ connectReturnedEarly' = TRUE
       /\ UNCHANGED <<ws, rs, nSockets, isIntentionallyClosed, promise>>
  ELSE /\ nSockets + 1 \in DOMAIN rs
       /\ UNCHANGED connectReturnedEarly
       /\ isIntentionallyClosed' =
            (IF provider = "GEMINI" THEN FALSE ELSE isIntentionallyClosed)
       /\ nSockets' = nSockets + 1
       /\ rs' = [rs EXCEPT ![nSockets + 1] = "CONNECTING"]
       /\ ws' = nSockets + 1
       /\ promise' = [promise EXCEPT ![nSockets + 1] = "pending"]

\* connect() called by the owner of the client
Connect ==
  /\ ConnectBody
  /\ closeCalled' = FALSE
  /\ UNCHANGED <<provider, ready, reconnectAttempts, timers, audioSendCount,
                 sent, acked, reconnectConnectCalls, suppressed,
                 reconnectLog, handlerVars, errorCalls>>

\* setupSession() of GeminiLiveClient, run by the 'open' handler
SetupSession ==
  IF ws # 0 /\ rs'[ws] = "OPEN"
  THEN /\ Send(ws, "setup")
       /\ ready' = TRUE
  ELSE UNCHANGED <<sent, ready>>

\* 'open' event of socket s
WsOpen(s) ==
  /\ rs[s] = "CONNECTING"
  /\ rs' = [rs EXCEPT ![s] = "OPEN"]
  /\ IF provider = "GEMINI"
     THEN /\ reconnectAttempts' = 0
          /\ reconnectLog' = Append(reconnectLog, 0)
          /\ SetupSession
     ELSE UNCHANGED <<reconnectAttempts, reconnectLog, sent, ready>>
  /\ promise' = [promise EXCEPT ![s] = "resolved"]
  /\ UNCHANGED <<provider, ws, nSockets, isIntentionallyClosed, timers,
                 audioSendCount, acked, closeCalled, reconnectConnectCalls,
                 suppressed, connectReturnedEarly, handlerVars, errorCalls>>

\* sendSystemInstruction() of OpenAIRealtimeClient
SendSystemInstruction ==
  IF IsOpen THEN Send(ws, "instr") ELSE UNCHANGED sent

(***************************************************************************)
(* 'message' event of socket s carrying the provider's ready               *)
(* acknowledgment (Gemini setupComplete, OpenAI session.created).  The     *)
(* provider acknowledges a transport once; Gemini does so in answer to the *)
(* setup message.  `ws` delivers messages until the socket is closed.      *)
(***************************************************************************)
HandleAck ==
  IF provider = "GEMINI"
  THEN UNCHANGED <<ready, sent>>
  ELSE /\ ready' = TRUE
       /\ SendSystemInstruction

WsAck(s) ==
  /\ rs[s] \in {"OPEN", "CLOSING"}
  /\ ~acked[s]
  /\ provider = "GEMINI" => sent[s] # <<>>
  /\ acked' = [acked EXCEPT ![s] = TRUE]
  /\ HandleAck
  /\ UNCHANGED <<provider, ws, rs, nSockets, isIntentionallyClosed,
                 reconnectAttempts, timers, audioSendCount, closeCalled,
                 reconnectConnectCalls, suppressed, reconnectLog,
                 connectReturnedEarly, handlerVars, errorCalls, promise>>

\* the caller of the error handler: if (this.errorHandler) { ... }
CallErrorHandler(src) ==
  errorCalls' = IF errorHandler # 0
                THEN Append(errorCalls, [h |-> errorHandler, src |-> src])
                ELSE errorCalls

\* reject(error) of the connect() that created socket s; a promise that
\* was resolved by 'open' stays resolved
RejectConnect(s) ==
  promise' = [promise EXCEPT ![s] = IF @ = "pending" THEN "rejected" ELSE @]

\* 'error' event of socket s: the transport fails; its 'close' follows
WsError(s) ==
  /\ rs[s] \in {"CONNECTING", "OPEN"}
  /\ rs' = [rs EXCEPT ![s] = "CLOSING"]
  /\ CallErrorHandler(s)
  /\ RejectConnect(s)
  /\ UNCHANGED <<provider, ws, nSockets, ready, isIntentionallyClosed,
                 reconnectAttempts, timers, audioSendCount, sent, acked,
                 closeCalled, reconnectConnectCalls, suppressed,
                 reconnectLog, connectReturnedEarly, handlerVars>>

\* mutant of BackoffDelay: the delay is not capped
BackoffDelay_Uncapped(n) == ReconnectDelay * n

\* the delay attemptReconnect computes for attempt number n
BackoffDelay(n) == Min(ReconnectDelay * n, MaxReconnectDelay)

\* mutant of AttemptReconnect: the client gives up after one attempt
AttemptReconnect_GivesUp ==
  IF isIntentionallyClosed \/ reconnectAttempts >= 1
  THEN UNCHANGED <<reconnectAttempts, timers, reconnectLog>>
  ELSE /\ reconnectAttempts' = reconnectAttempts + 1
       /\ reconnectLog' = Append(reconnectLog, BackoffDelay(reconnectAttempts'))
       /\ timers' = timers + 1

\* attemptReconnect() of GeminiLiveClient
AttemptReconnect ==
  IF isIntentionallyClosed
  THEN UNCHANGED <<reconnectAttempts, timers, reconnectLog>>
  ELSE /\ reconnectAttempts' = reconnectAttempts + 1
       /\ reconnectLog' = Append(reconnectLog, BackoffDelay(reconnectAttempts'))
       /\ timers' = timers + 1

\* the 'close' handler's reconnect decision
CloseHandlerReconnect ==
  IF provider = "GEMINI" /\ ~isIntentionallyClosed
  THEN AttemptReconnect
  ELSE UNCHANGED <<reconnectAttempts, timers, reconnectLog>>

\* mutant of CloseKeepsHandlers: the 'close' handler drops the callbacks
CloseKeepsHandlers_Cleared ==
  /\ messageHandler' = 0
  /\ errorHandler' = 0

\* the 'close' handler assigns this.ws and the session flag only: the
\* registered callbacks stay
CloseKeepsHandlers == UNCHANGED <<messageHandler, errorHandler>>

\* 'close' event of socket s
WsClose(s) ==
  /\ rs[s] \in {"OPEN", "CLOSING"}
  /\ rs' = [rs EXCEPT ![s] = "CLOSED"]
  /\ ws' = 0
  /\ ready' = FALSE
  /\ CloseHandlerReconnect
  /\ CloseKeepsHandlers
  /\ UNCHANGED <<provider, nSockets, isIntentionallyClosed, audioSendCount,
                 sent, acked, closeCalled, reconnectConnectCalls, suppressed,
                 connectReturnedEarly, audioCalls, fragN, unheard, malformedN,
                 audioRegs, errorRegs, errorCalls, promise>>

\* mutant of TimerConnects: the timer callback forgets the closed flag
TimerConnects_NoFlagCheck == TRUE

\* the setTimeout callback of attemptReconnect: connects when not closed
TimerConnects == ~isIntentionallyClosed

ReconnectTimer ==
  /\ timers > 0
  /\ timers' = timers - 1
  /\ IF TimerConnects
     THEN /\ ConnectBody
          /\ reconnectConnectCalls' = reconnectConnectCalls + 1
          /\ UNCHANGED suppressed
     ELSE /\ suppressed' = TRUE
          /\ UNCHANGED <<ws, rs, nSockets, isIntentionallyClosed,
                         reconnectConnectCalls, connectReturnedEarly,
                         promise>>
  /\ UNCHANGED <<provider, ready, reconnectAttempts, audioSendCount, sent,
                 acked, closeCalled, reconnectLog, handlerVars, errorCalls>>

\* close()
Close ==
  /\ isIntentionallyClosed' =
       (IF provider = "GEMINI" THEN TRUE ELSE isIntentionallyClosed)
  /\ IF ws # 0
     THEN /\ rs' = [rs EXCEPT ![ws] =
                      IF @ \in {"CONNECTING", "OPEN"} THEN "CLOSING" ELSE @]
          /\ ws' = 0
     ELSE UNCHANGED <<rs, ws>>
  /\ ready' = (IF provider = "OPENAI" THEN FALSE ELSE ready)
  /\ closeCalled' = TRUE
  /\ UNCHANGED <<provider, nSockets, reconnectAttempts, timers,
                 audioSendCount, sent, acked, reconnectConnectCalls,
                 suppressed, reconnectLog, connectReturnedEarly, handlerVars,
                 errorCalls, promise>>

\* the guard of sendAudio(): both early returns passed
SendAudioPasses == IsOpen /\ ready

\* n consecutive sendAudio(audioData, mimeType) calls
SendAudioTimes(n) ==
  IF SendAudioPasses
  THEN /\ sent' = [sent EXCEPT ![ws] = @ \o [i \in 1..n |-> "audio"]]
       /\ audioSendCount' = audioSendCount + n
  ELSE UNCHANGED <<sent, audioSendCount>>

\* sendAudio(audioData, mimeType) called by the owner of the client
SendAudio ==
  /\ audioSendCount < MaxSends
  /\ SendAudioTimes(1)
  /\ UNCHANGED <<provider, ws, rs, nSockets, ready, isIntentionallyClosed,
                 reconnectAttempts, timers, acked, closeCalled,
                 reconnectConnectCalls, suppressed, reconnectLog,
                 connectReturnedEarly, handlerVars, errorCalls, promise>>

NextClient ==
  \/ Connect /\ UNCHANGED bridgeVars
  \/ Close /\ UNCHANGED bridgeVars
  \/ SendAudio /\ UNCHANGED bridgeVars
  \/ ReconnectTimer /\ UNCHANGED bridgeVars
  \/ \E s \in Sockets : WsOpen(s) /\ UNCHANGED bridgeVars
  \/ \E s \in Sockets : WsAck(s) /\ UNCHANGED bridgeVars
  \/ \E s \in Sockets : WsError(s) /\ UNCHANGED bridgeVars
  \/ \E s \in Sockets : WsClose(s) /\ UNCHANGED bridgeVars

InitClient ==
  /\ provider \in {"GEMINI", "OPENAI"}
  /\ InitClientVars
  /\ InitBridgeVars


(***************************************************************************)
(* AudioBridge and page.                                                   *)
(***************************************************************************)
clientRest == <<provider, ws, rs, nSockets, ready, isIntentionallyClosed,
                reconnectAttempts, timers, acked, closeCalled,
                reconnectConnectCalls, suppressed, reconnectLog,
                connectReturnedEarly, handlerVars, errorCalls, promise>>

\* outcome of a page.evaluate issued now: it throws "Execution context was
\* destroyed" while the page is navigating
BridgeCallOutcome == IF navigating THEN "destroyed" ELSE "ok"

\* the function evaluated in the page by the audio handler and by the flush:
\* w.__geminiAudioQueue.push(data)
PagePush(id) ==
  /\ micQueue' = Append(micQueue, id)
  /\ micPushLog' = Append(micPushLog, id)

\* mutant of HoldChunk: the failed chunk is dropped
HoldChunk_Dropped(id) == audioDataQueue' = audioDataQueue

\* the catch branch of the audio handler, for a destroyed context
HoldChunk(id) == audioDataQueue' = Append(audioDataQueue, id)

\* setupBeforeLogin(): registers the audio handler on the client
SetupBeforeLogin ==
  /\ bpc = "new"
  /\ bpc' = "handler"
  /\ UNCHANGED <<isRunning, audioDataQueue, flushIter, navigating, navs,
                 micQueue, remoteQueue, captureOn, relayExposed, aiN, capN,
                 micPushLog, heldEver, relayLog, sendAudioCalls, drainDone,
                 drainedEntries>>
  /\ UNCHANGED clientVars
  /\ UNCHANGED micVars
  /\ UNCHANGED <<tapVars, unitVars>>

(***************************************************************************)
(* The client receives one audio fragment on a socket that still delivers  *)
(* messages and invokes the registered handler, if any.  The handler       *)
(* pushes the chunk into the page, or holds it when the context is gone.   *)
(***************************************************************************)
AiAudio(lens) ==
  /\ aiN < MaxAiChunks
  /\ \E s \in Sockets : rs[s] \in {"OPEN", "CLOSING"}
  /\ aiN' = aiN + 1
  /\ \E n \in lens : chunkLen' = [chunkLen EXCEPT ![aiN + 1] = n]
  /\ UNCHANGED <<micInit, micOut>>
  /\ IF bpc = "new"
     THEN UNCHANGED <<micQueue, micPushLog, audioDataQueue, heldEver>>
     ELSE IF BridgeCallOutcome = "ok"
          THEN /\ PagePush(aiN + 1)
               /\ UNCHANGED <<audioDataQueue, heldEver>>
          ELSE /\ HoldChunk(aiN + 1)
               /\ heldEver' = heldEver \cup {aiN + 1}
               /\ UNCHANGED <<micQueue, micPushLog>>
  /\ UNCHANGED <<bpc, isRunning, flushIter, navigating, navs, remoteQueue,
                 captureOn, relayExposed, capN, relayLog, sendAudioCalls,
                 drainDone, drainedEntries>>
  /\ UNCHANGED clientVars
  /\ UNCHANGED <<tapVars, unitVars>>

\* the page starts navigating: the document and its globals are replaced;
\* functions exposed with page.exposeFunction survive
NavigateStart ==
  /\ ~navigating
  /\ navs < MaxNavigations
  /\ navigating' = TRUE
  /\ navs' = navs + 1
  /\ micQueue' = <<>>
  /\ remoteQueue' = <<>>
  /\ captureOn' = FALSE
  /\ UNCHANGED <<bpc, isRunning, audioDataQueue, flushIter, relayExposed,
                 aiN, capN, micPushLog, heldEver, relayLog, sendAudioCalls,
                 drainDone, drainedEntries>>
  /\ micInit' = FALSE
  /\ UNCHANGED <<micOut, chunkLen>>
  /\ UNCHANGED clientVars
  /\ tapMode' = "none"
  /\ cleanupSet' = FALSE
  /\ pcs' = <<>>
  /\ UNCHANGED <<cleanupCalls, stopCalls, stopPageCalls, stopThrew, graphs>>
  /\ UNCHANGED unitVars

\* the new document's execution context is ready
NavigateEnd ==
  /\ navigating
  /\ navigating' = FALSE
  /\ UNCHANGED <<bpc, isRunning, audioDataQueue, flushIter, navs, micQueue,
                 remoteQueue, captureOn, relayExposed, aiN, capN, micPushLog,
                 heldEver, relayLog, sendAudioCalls, drainDone,
                 drainedEntries>>
  /\ UNCHANGED clientVars
  /\ UNCHANGED micVars
  /\ UNCHANGED <<tapVars, unitVars>>

\* a peer connection of the page receives a remote audio track: the init
\* script builds its capture graph
TrackAudio ==
  /\ ~navigating
  /\ ~captureOn
  /\ captureOn' = TRUE
  /\ UNCHANGED <<bpc, isRunning, audioDataQueue, flushIter, navigating, navs,
                 micQueue, remoteQueue, relayExposed, aiN, capN, micPushLog,
                 heldEver, relayLog, sendAudioCalls, drainDone,
                 drainedEntries>>
  /\ UNCHANGED clientVars
  /\ UNCHANGED micVars
  /\ UNCHANGED <<tapVars, unitVars>>

\* mutant of RelayForwards: the relay hands every chunk to the client
RelayForwards_Always == TRUE

\* the relay's test `if (this.geminiClient.isConnected())`
RelayForwards == IsConnected

\* the function given to page.exposeFunction('sendAudioToGemini', ...),
\* called with each of `chunks` in turn
Relay(chunks) ==
  /\ relayLog' = relayLog \o chunks
  /\ IF RelayForwards
     THEN /\ sendAudioCalls' = sendAudioCalls \o chunks
          /\ SendAudioTimes(Len(chunks))
     ELSE UNCHANGED <<sendAudioCalls, sent, audioSendCount>>

\* mutant of UsesRelay: the callback keeps queueing
UsesRelay_Never == FALSE

\* the capture callback's test `if (w.sendAudioToGemini)`
UsesRelay == relayExposed

\* mutant of QueueHasRoom: off by one
QueueHasRoom_OffByOne == Len(remoteQueue) <= RemoteQueueCap

\* the capture callback's test `w.__remoteAudioQueue.length < 1000`
QueueHasRoom == Len(remoteQueue) < RemoteQueueCap

\* processor.onaudioprocess of the init script's capture graph: one block
\* is converted and handed to the relay, or queued while there is none
CaptureTick(limit) ==
  /\ captureOn
  /\ ~navigating
  /\ capN < limit
  /\ capN' = capN + 1
  /\ IF UsesRelay
     THEN /\ Relay(<<capN + 1>>)
          /\ UNCHANGED remoteQueue
     ELSE /\ remoteQueue' = IF QueueHasRoom
                            THEN Append(remoteQueue, capN + 1)
                            ELSE remoteQueue
          /\ UNCHANGED <<relayLog, sendAudioCalls, sent, audioSendCount>>
  /\ UNCHANGED <<bpc, isRunning, audioDataQueue, flushIter, navigating, navs,
                 micQueue, captureOn, relayExposed, aiN, micPushLog, heldEver,
                 drainDone, drainedEntries>>
  /\ UNCHANGED clientRest
  /\ UNCHANGED micVars
  /\ UNCHANGED <<tapVars, unitVars>>

\* mutant of AlreadyRunning: completeSetup never takes its early return
AlreadyRunning_Ignored == FALSE

\* completeSetup(), `if (this.isRunning)`: the early return
AlreadyRunning == isRunning

\* completeSetup(), entry: returns when running, else goes on to the flush
CompleteSetupStart ==
  /\ bpc \in {"handler", "stopped", "running"}
  /\ IF AlreadyRunning
     THEN UNCHANGED <<bpc, flushIter>>
     ELSE IF Len(audioDataQueue) > 0
     THEN bpc' = "flush" /\ flushIter' = 1
     ELSE bpc' = "expose" /\ UNCHANGED flushIter
  /\ UNCHANGED <<isRunning, audioDataQueue, navigating, navs, micQueue,
                 remoteQueue, captureOn, relayExposed, aiN, capN, micPushLog,
                 heldEver, relayLog, sendAudioCalls, drainDone,
                 drainedEntries>>
  /\ UNCHANGED clientVars
  /\ UNCHANGED micVars
  /\ UNCHANGED <<tapVars, unitVars>>

(***************************************************************************)
(* completeSetup(), one iteration of `for (const audioData of              *)
(* this.audioDataQueue)`: the chunk is pushed into the page, or the        *)
(* failure is logged and the loop goes on.  After the last element the     *)
(* queue is replaced by [].                                                *)
(***************************************************************************)
FlushStep ==
  /\ bpc = "flush"
  /\ IF flushIter <= Len(audioDataQueue)
     THEN /\ flushIter' = flushIter + 1
          /\ IF BridgeCallOutcome = "ok"
             THEN PagePush(audioDataQueue[flushIter])
             ELSE UNCHANGED <<micQueue, micPushLog>>
          /\ UNCHANGED <<bpc, audioDataQueue>>
     ELSE /\ audioDataQueue' = <<>>
          /\ bpc' = "expose"
          /\ UNCHANGED <<flushIter, micQueue, micPushLog>>
  /\ UNCHANGED <<isRunning, navigating, navs, remoteQueue, captureOn,
                 relayExposed, aiN, capN, heldEver, relayLog, sendAudioCalls,
                 drainDone, drainedEntries>>
  /\ UNCHANGED clientVars
  /\ UNCHANGED micVars
  /\ UNCHANGED <<tapVars, unitVars>>

\* mutant of TapFailure: a failure of the inbound stream setup leaves
\* completeSetup
TapFailure_Propagates ==
  /\ bpc' = "handler"
  /\ UNCHANGED isRunning

\* completeSetup's catch around setupOViceToGeminiStream, and its last
\* statement
TapFailure ==
  /\ bpc' = "running"
  /\ isRunning' = TRUE

\* setupOViceToGeminiStream(): page.exposeFunction('sendAudioToGemini', ...);
\* it throws when the name is already registered on the page, and
\* completeSetup catches that and marks the bridge running
ExposeRelay ==
  /\ bpc = "expose"
  /\ IF relayExposed
     THEN /\ TapFailure
          /\ UNCHANGED relayExposed
     ELSE /\ relayExposed' = TRUE
          /\ bpc' = "drain"
          /\ UNCHANGED isRunning
  /\ UNCHANGED <<audioDataQueue, flushIter, navigating, navs,
                 micQueue, remoteQueue, captureOn, aiN, capN, micPushLog,
                 heldEver, relayLog, sendAudioCalls, drainDone,
                 drainedEntries>>
  /\ UNCHANGED clientVars
  /\ UNCHANGED micVars
  /\ UNCHANGED <<tapVars, unitVars>>

\* the order in which the drain hands the queued entries to the relay
DrainOrder(q) == q

(***************************************************************************)
(* setupOViceToGeminiStream(): the page.evaluate that passes every entry   *)
(* of __remoteAudioQueue to the relay and replaces the queue by [].  When  *)
(* the call throws, completeSetup catches it and marks the bridge running. *)
(***************************************************************************)
DrainRemoteQueue ==
  /\ bpc = "drain"
  /\ IF BridgeCallOutcome = "ok"
     THEN /\ Relay(DrainOrder(remoteQueue))
          /\ remoteQueue' = <<>>
          /\ drainDone' = TRUE
          /\ drainedEntries' = remoteQueue
          /\ bpc' = "tap"
          /\ UNCHANGED isRunning
     ELSE /\ TapFailure
          /\ UNCHANGED <<remoteQueue, drainDone, drainedEntries, relayLog,
                         sendAudioCalls, sent, audioSendCount>>
  /\ UNCHANGED <<audioDataQueue, flushIter, navigating, navs, micQueue,
                 captureOn, relayExposed, aiN, capN, micPushLog, heldEver>>
  /\ UNCHANGED clientRest
  /\ UNCHANGED micVars
  /\ UNCHANGED <<tapVars, unitVars>>

\* `if (audioElements.length === 0)`: the peer-connection path is taken
UsePeerPath(hasAudioElement) == ~hasAudioElement

(***************************************************************************)
(* setupOViceToGeminiStream(), the inbound tap.  The page is asked for its *)
(* audio elements; with none, setupWebRTCAudioCapture wraps                *)
(* RTCPeerConnection; otherwise the configured selector is awaited and the *)
(* element's capture graph is built, which also installs the cleanup       *)
(* callback.  A page call during a navigation throws, and waitForSelector  *)
(* throws when the element is not found in time.                           *)
(***************************************************************************)
FinishSetupWith(hasAudioElement, selectorFound) ==
  /\ bpc = "tap"
  /\ IF BridgeCallOutcome # "ok"
     THEN TapFailure /\ UNCHANGED <<tapMode, cleanupSet>>
     ELSE IF UsePeerPath(hasAudioElement)
     THEN /\ tapMode' = "webrtc"
          /\ bpc' = "running"
          /\ isRunning' = TRUE
          /\ UNCHANGED cleanupSet
     ELSE IF ~selectorFound
     THEN TapFailure /\ UNCHANGED <<tapMode, cleanupSet>>
     ELSE /\ tapMode' = "element"
          /\ cleanupSet' = TRUE
          /\ bpc' = "running"
          /\ isRunning' = TRUE
  /\ UNCHANGED <<audioDataQueue, flushIter, navigating, navs, micQueue,
                 remoteQueue, captureOn, relayExposed, aiN, capN, micPushLog,
                 heldEver, relayLog, sendAudioCalls, drainDone,
                 drainedEntries>>
  /\ UNCHANGED <<cleanupCalls, stopCalls, stopPageCalls, stopThrew, pcs,
                 graphs>>
  /\ UNCHANGED unitVars
  /\ UNCHANGED clientVars
  /\ UNCHANGED micVars

\* the page has an audio element or not, and the configured selector
\* matches one in time or not
FinishSetup ==
  \E hasAudioElement \in BOOLEAN, selectorFound \in BOOLEAN :
    FinishSetupWith(hasAudioElement, selectorFound)

(***************************************************************************)
(* stop(): returns at once when the bridge is not running; otherwise one   *)
(* page call runs and deletes window.__oviceAudioCleanup if it exists,     *)
(* and afterwards isRunning is cleared.  The page call throws during a     *)
(* navigation, and the exception leaves stop() before isRunning is         *)
(* cleared.                                                                *)
(***************************************************************************)
Stop ==
  /\ stopCalls < MaxStops
  /\ stopCalls' = stopCalls + 1
  /\ IF ~isRunning
     THEN /\ stopThrew' = FALSE
          /\ UNCHANGED <<bpc, isRunning, stopPageCalls, cleanupSet,
                         cleanupCalls, tapMode>>
     ELSE /\ stopPageCalls' = stopPageCalls + 1
          /\ IF BridgeCallOutcome = "ok"
             THEN /\ cleanupCalls' = cleanupCalls + (IF cleanupSet THEN 1 ELSE 0)
                  /\ cleanupSet' = FALSE
                  /\ tapMode' = (IF cleanupSet THEN "none" ELSE tapMode)
                  /\ isRunning' = FALSE
                  /\ bpc' = "stopped"
                  /\ stopThrew' = FALSE
             ELSE /\ stopThrew' = TRUE
                  /\ UNCHANGED <<bpc, isRunning, cleanupSet, cleanupCalls,
                                 tapMode>>
  /\ UNCHANGED <<audioDataQueue, flushIter, navigating, navs, micQueue,
                 remoteQueue, captureOn, relayExposed, aiN, capN, micPushLog,
                 heldEver, relayLog, sendAudioCalls, drainDone,
                 drainedEntries, pcs, graphs>>
  /\ UNCHANGED clientVars
  /\ UNCHANGED <<micVars, unitVars>>

(***************************************************************************)
(* The page constructs an RTCPeerConnection.  The init script's wrapper    *)
(* adds its 'track' listener to every connection; when the fallback of     *)
(* setupWebRTCAudioCapture is installed, its wrapper, which wraps the init *)
(* script's, also assigns pc.ontrack.  The application may assign          *)
(* pc.ontrack itself afterwards, which replaces the fallback's handler.    *)
(***************************************************************************)
NewPeerConnection ==
  /\ ~navigating
  /\ Len(pcs) < MaxPeerConnections
  /\ \E appSetsOntrack \in BOOLEAN :
       pcs' = Append(pcs, [fallback |-> tapMode = "webrtc",
                           appOntrack |-> appSetsOntrack])
  /\ UNCHANGED <<bpc, isRunning, audioDataQueue, flushIter, navigating, navs,
                 micQueue, remoteQueue, captureOn, relayExposed, aiN, capN,
                 micPushLog, heldEver, relayLog, sendAudioCalls, drainDone,
                 drainedEntries>>
  /\ UNCHANGED <<tapMode, cleanupSet, cleanupCalls, stopCalls, stopPageCalls,
                 stopThrew, graphs>>
  /\ UNCHANGED unitVars
  /\ UNCHANGED clientVars
  /\ UNCHANGED micVars

\* capture graphs the init script's 'track' listener builds for one event
InitScriptGraphs(kind) == IF kind = "audio" THEN 1 ELSE 0

\* capture graphs the fallback's pc.ontrack builds for one event on pc
FallbackGraphs(pc, kind) ==
  IF kind = "audio" /\ pc.fallback /\ ~pc.appOntrack THEN 1 ELSE 0

\* getPreferredSampleRate() of the two classes
PreferredSampleRate(p) ==
  IF p = "GEMINI" THEN GeminiSampleRate ELSE OpenAISampleRate

\* the sampleRate main() builds the init script with
InitScriptSampleRate == PreferredSampleRate(provider)

\* the AudioBridgeConfig main() passes: the selector alone, with 0 for the
\* fields left undefined
MainBridgeConfig ==
  [audioSelector |-> "audio", inputSampleRate |-> 0, outputSampleRate |-> 0]

\* this.config.inputSampleRate as the AudioBridge constructor sets it
BridgeInputSampleRate ==
  Nullish(MainBridgeConfig.inputSampleRate, DefaultInputSampleRate)

\* the capture graph of the audio-element path, built in an AudioContext
\* of the bridge's inputSampleRate: source -> processor -> destination
ElementGraph ==
  [by |-> "element", sinkGain |-> 1, writesOutput |-> FALSE,
   rate |-> BridgeInputSampleRate]

\* the capture graph of the init script's 'track' listener: source ->
\* processor -> dummyGain (gain.value = 0) -> destination; its
\* onaudioprocess reads the input and writes no output buffer
InitScriptGraph ==
  [by |-> "initScript", sinkGain |-> 0, writesOutput |-> FALSE,
   rate |-> InitScriptSampleRate]

\* mutant of FallbackGraph: the callback copies its input to its output
FallbackGraph_PassThrough ==
  [by |-> "fallback", sinkGain |-> 1, writesOutput |-> TRUE,
   rate |-> BridgeInputSampleRate]

\* the capture graph of the fallback's pc.ontrack: source -> processor ->
\* destination, with no gain node; its onaudioprocess reads the input and
\* writes no output buffer
FallbackGraph ==
  [by |-> "fallback", sinkGain |-> 1, writesOutput |-> FALSE,
   rate |-> BridgeInputSampleRate]

\* what a graph renders at the destination for an input of the given
\* level: a ScriptProcessorNode whose callback writes no output emits
\* silence, and a gain node scales what it receives
RenderedLevel(g, inputLevel) ==
  (IF g.writesOutput THEN inputLevel ELSE 0) * g.sinkGain

\* a 'track' event, carrying a stream, on peer connection p of the page
TrackEvent ==
  /\ ~navigating
  /\ Len(graphs) < MaxTracks
  /\ \E p \in 1..Len(pcs), kind \in {"audio", "video"} :
       /\ graphs' = Append(graphs,
                      [kind |-> kind,
                       fallback |-> pcs[p].fallback,
                       n |-> InitScriptGraphs(kind)
                               + FallbackGraphs(pcs[p], kind),
                       built |->
                         [i \in 1..InitScriptGraphs(kind) |-> InitScriptGraph]
                         \o [i \in 1..FallbackGraphs(pcs[p], kind) |->
                               FallbackGraph]])
       /\ captureOn' = (captureOn \/ kind = "audio")
  /\ UNCHANGED <<bpc, isRunning, audioDataQueue, flushIter, navigating, navs,
                 micQueue, remoteQueue, relayExposed, aiN, capN, micPushLog,
                 heldEver, relayLog, sendAudioCalls, drainDone,
                 drainedEntries>>
  /\ UNCHANGED <<tapMode, cleanupSet, cleanupCalls, stopCalls, stopPageCalls,
                 stopThrew, pcs>>
  /\ UNCHANGED unitVars
  /\ UNCHANGED clientVars
  /\ UNCHANGED micVars

\* what one block callback of the synthetic microphone writes for chunk c:
\* the copy loop stops at the end of the block or of the chunk
SamplesWritten(c) == Min(chunkLen[c], BufferSize)

\* mutant of NeedsMicStream: every call builds a stream
NeedsMicStream_Always == TRUE

\* the test of the override: if (!w.__geminiMicStream)
NeedsMicStream == ~micInit

\* navigator.mediaDevices.getUserMedia(constraints) of the init script,
\* audio being the truthiness of constraints?.audio.  A call that finds no
\* stream runs initGeminiStream, which creates the queue, the processor and
\* the stream; streams are numbered in creation order and 0 stands for
\* what originalGetUserMedia returns
GetUserMedia(audio) ==
  /\ ~navigating
  /\ Len(gumLog) < MaxGumCalls
  /\ IF NeedsMicStream
     THEN /\ micInit' = TRUE
          /\ micQueue' = <<>>
          /\ micBuildLog' = Append(micBuildLog, navs)
     ELSE UNCHANGED <<micInit, micQueue, micBuildLog>>
  /\ gumLog' = Append(gumLog,
                  [audio |-> audio, doc |-> navs,
                   stream |-> IF audio /\ micInit'
                              THEN Len(micBuildLog') ELSE 0])
  /\ UNCHANGED <<bpc, isRunning, audioDataQueue, flushIter, navigating, navs,
                 remoteQueue, captureOn, relayExposed, aiN, capN, micPushLog,
                 heldEver, relayLog, sendAudioCalls, drainDone,
                 drainedEntries, micOut, chunkLen>>
  /\ UNCHANGED clientVars
  /\ UNCHANGED <<tapVars, config, created, inputData, pcm16, outputData,
                 recVars>>

\* processor.onaudioprocess of the synthetic microphone: shifts one chunk
\* and copies its samples into the block, or fills the block with zeros
MicTick ==
  /\ micInit
  /\ ~navigating
  /\ Len(micOut) < MaxMicTicks
  /\ IF Len(micQueue) > 0
     THEN /\ micQueue' = Tail(micQueue)
          /\ micOut' = Append(micOut,
                         [chunk |-> Head(micQueue),
                          samples |-> chunkLen[Head(micQueue)],
                          written |-> SamplesWritten(Head(micQueue))])
     ELSE /\ micOut' = Append(micOut, [chunk |-> 0, samples |-> 0,
                                       written |-> 0])
          /\ UNCHANGED micQueue
  /\ UNCHANGED <<bpc, isRunning, audioDataQueue, flushIter, navigating, navs,
                 remoteQueue, captureOn, relayExposed, aiN, capN, micPushLog,
                 heldEver, relayLog, sendAudioCalls, drainDone,
                 drainedEntries, micInit, chunkLen>>
  /\ UNCHANGED clientVars
  /\ UNCHANGED <<tapVars, unitVars>>

\* sizes of the AI chunks: around one block for the synthetic microphone,
\* one block exactly where the size plays no part
MicChunkSamples == {BufferSize - 1, BufferSize, BufferSize + 1}
BridgeChunkSamples == {BufferSize}

BridgeCaptureTick == CaptureTick(MaxCaptured)

NextBridge ==
  \/ SetupBeforeLogin
  \/ AiAudio(BridgeChunkSamples)
  \/ NavigateStart
  \/ NavigateEnd
  \/ TrackAudio
  \/ BridgeCaptureTick
  \/ CompleteSetupStart
  \/ FlushStep
  \/ ExposeRelay
  \/ DrainRemoteQueue
  \/ FinishSetup
  \/ WsAck(1) /\ UNCHANGED bridgeVars
  \/ WsClose(1) /\ UNCHANGED bridgeVars

\* the client as main() hands it to the bridge: connect() has resolved, so
\* the first transport is open (and Gemini has sent its setup message)
InitConnectedClient ==
  /\ provider \in {"GEMINI", "OPENAI"}
  /\ InitHandlerVars
  /\ promise = [s \in Sockets |-> IF s = 1 THEN "resolved" ELSE "none"]
  /\ ws = 1
  /\ rs = [s \in Sockets |-> IF s = 1 THEN "OPEN" ELSE "NEW"]
  /\ nSockets = 1
  /\ ready = (provider = "GEMINI")
  /\ isIntentionallyClosed = FALSE
  /\ reconnectAttempts = 0
  /\ timers = 0
  /\ audioSendCount = 0
  /\ sent = [s \in Sockets |->
               IF s = 1 /\ provider = "GEMINI" THEN <<"setup">> ELSE <<>>]
  /\ acked = [s \in Sockets |-> FALSE]
  /\ closeCalled = FALSE
  /\ reconnectConnectCalls = 0
  /\ suppressed = FALSE
  /\ reconnectLog = (IF provider = "GEMINI" THEN <<0>> ELSE <<>>)
  /\ connectReturnedEarly = FALSE

InitBridge ==
  /\ InitConnectedClient
  /\ InitBridgeVars

vars == <<clientVars, bridgeVars>>

SpecClient == InitClient /\ [][NextClient]_vars

SpecBridge == InitBridge /\ [][NextBridge]_vars

(***************************************************************************)
(* The synthetic microphone: AI chunks of several sizes arrive through the *)
(* handler setupBeforeLogin registered, the application asks for the       *)
(* microphone, the processor ticks.                                        *)
(***************************************************************************)

MicGetUserMedia == \E audio \in BOOLEAN : GetUserMedia(audio)

NextMic ==
  \/ AiAudio(MicChunkSamples)
  \/ MicGetUserMedia
  \/ MicTick

InitMic ==
  /\ InitConnectedClient
  /\ bpc = "handler"
  /\ isRunning = FALSE
  /\ audioDataQueue = <<>>
  /\ flushIter = 0
  /\ navigating = FALSE
  /\ navs = 0
  /\ micQueue = <<>>
  /\ remoteQueue = <<>>
  /\ captureOn = FALSE
  /\ relayExposed = FALSE
  /\ aiN = 0
  /\ capN = 0
  /\ micPushLog = <<>>
  /\ heldEver = {}
  /\ relayLog = <<>>
  /\ sendAudioCalls = <<>>
  /\ drainDone = FALSE
  /\ drainedEntries = <<>>
  /\ micInit = FALSE
  /\ micOut = <<>>
  /\ chunkLen = [c \in AiChunks |-> 0]
  /\ InitTapVars
  /\ InitUnitVars

SpecMic == InitMic /\ [][NextMic]_vars

(***************************************************************************)
(* The pre-relay FIFO at its capacity.  The start is the state after       *)
(* setupBeforeLogin, a remote audio track, FifoPrefill capture blocks and  *)
(* the entry of completeSetup with nothing held on the Node side.          *)
(***************************************************************************)
FifoCaptureTick == CaptureTick(MaxFifoCaptured)

NextFifo ==
  \/ FifoCaptureTick
  \/ ExposeRelay
  \/ DrainRemoteQueue
  \/ FinishSetup
  \/ WsAck(1) /\ UNCHANGED bridgeVars
  \/ WsClose(1) /\ UNCHANGED bridgeVars

InitFifo ==
  /\ InitConnectedClient
  /\ bpc = "expose"
  /\ isRunning = FALSE
  /\ audioDataQueue = <<>>
  /\ flushIter = 0
  /\ navigating = FALSE
  /\ navs = 0
  /\ micQueue = <<>>
  /\ remoteQueue = [i \in 1..FifoPrefill |-> i]
  /\ captureOn = TRUE
  /\ relayExposed = FALSE
  /\ aiN = 0
  /\ capN = FifoPrefill
  /\ micPushLog = <<>>
  /\ heldEver = {}
  /\ relayLog = <<>>
  /\ sendAudioCalls = <<>>
  /\ drainDone = FALSE
  /\ drainedEntries = <<>>
  /\ micInit = FALSE
  /\ micOut = <<>>
  /\ chunkLen = [c \in AiChunks |-> 0]
  /\ InitTapVars
  /\ InitUnitVars

SpecFifo == InitFifo /\ [][NextFifo]_vars

(***************************************************************************)
(* The reconnect policy of GeminiLiveClient alone: the process connected   *)
(* once (main awaits connect()), then only the transport and the reconnect *)
(* timer act.  The run is long enough for the backoff to reach its cap.    *)
(***************************************************************************)
BackoffSockets == 1..MaxBackoffSockets

NextBackoff ==
  \/ \E s \in BackoffSockets : WsOpen(s) /\ UNCHANGED bridgeVars
  \/ \E s \in BackoffSockets : WsError(s) /\ UNCHANGED bridgeVars
  \/ \E s \in BackoffSockets : WsClose(s) /\ UNCHANGED bridgeVars
  \/ ReconnectTimer /\ UNCHANGED bridgeVars

InitBackoff ==
  /\ provider = "GEMINI"
  /\ InitHandlerVars
  /\ promise = [s \in BackoffSockets |-> IF s = 1 THEN "resolved" ELSE "none"]
  /\ ws = 1
  /\ rs = [s \in BackoffSockets |-> IF s = 1 THEN "OPEN" ELSE "NEW"]
  /\ nSockets = 1
  /\ ready = TRUE
  /\ isIntentionallyClosed = FALSE
  /\ reconnectAttempts = 0
  /\ timers = 0
  /\ audioSendCount = 0
  /\ sent = [s \in BackoffSockets |-> IF s = 1 THEN <<"setup">> ELSE <<>>]
  /\ acked = [s \in BackoffSockets |-> FALSE]
  /\ closeCalled = FALSE
  /\ reconnectConnectCalls = 0
  /\ suppressed = FALSE
  /\ reconnectLog = <<0>>
  /\ connectReturnedEarly = FALSE
  /\ InitBridgeVars

SpecBackoff == InitBackoff /\ [][NextBackoff]_vars

(***************************************************************************)
(* Recovery after a transport drop: the process connected once, and from   *)
(* then on the owner only sends audio and calls close().  Node runs a due  *)
(* timer callback, a closing socket emits 'close', and a connecting socket *)
(* either opens or fails.                                                  *)
(***************************************************************************)
\* the relay keeps handing room audio to sendAudio
RecoverReconnectTimer == ReconnectTimer /\ UNCHANGED bridgeVars

NextRecover ==
  \/ Close /\ UNCHANGED bridgeVars
  \/ SendAudio /\ UNCHANGED bridgeVars
  \/ RecoverReconnectTimer
  \/ \E s \in Sockets : WsOpen(s) /\ UNCHANGED bridgeVars
  \/ \E s \in Sockets : WsAck(s) /\ UNCHANGED bridgeVars
  \/ \E s \in Sockets : WsError(s) /\ UNCHANGED bridgeVars
  \/ \E s \in Sockets : WsClose(s) /\ UNCHANGED bridgeVars

\* a socket that is closing closes; a socket that is connecting settles
TransportSettles ==
  \E s \in Sockets :
    /\ \/ rs[s] = "CLOSING" /\ WsClose(s)
       \/ rs[s] = "CONNECTING" /\ (WsOpen(s) \/ WsError(s))
    /\ UNCHANGED bridgeVars

\* the provider acknowledges the session of an open transport
ProviderAcks ==
  \E s \in Sockets : rs[s] = "OPEN" /\ WsAck(s) /\ UNCHANGED bridgeVars

InitRecover ==
  /\ InitConnectedClient
  /\ InitBridgeVars

FairSpecRecover ==
  /\ InitRecover
  /\ [][NextRecover]_vars
  /\ WF_vars(RecoverReconnectTimer)
  /\ WF_vars(TransportSettles)
  /\ WF_vars(ProviderAcks)

(***************************************************************************)
(* completeSetup and stop: the bridge has registered its handler; the      *)
(* owner calls completeSetup() and stop(), the page navigates, and the AI  *)
(* keeps sending audio.                                                    *)
(***************************************************************************)

NextTap ==
  \/ AiAudio(BridgeChunkSamples)
  \/ NavigateStart
  \/ NavigateEnd
  \/ CompleteSetupStart
  \/ FlushStep
  \/ ExposeRelay
  \/ DrainRemoteQueue
  \/ FinishSetup
  \/ Stop

InitTap ==
  /\ InitConnectedClient
  /\ bpc = "handler"
  /\ isRunning = FALSE
  /\ audioDataQueue = <<>>
  /\ flushIter = 0
  /\ navigating = FALSE
  /\ navs = 0
  /\ micQueue = <<>>
  /\ remoteQueue = <<>>
  /\ captureOn = FALSE
  /\ relayExposed = FALSE
  /\ aiN = 0
  /\ capN = 0
  /\ micPushLog = <<>>
  /\ heldEver = {}
  /\ relayLog = <<>>
  /\ sendAudioCalls = <<>>
  /\ drainDone = FALSE
  /\ drainedEntries = <<>>
  /\ micInit = FALSE
  /\ micOut = <<>>
  /\ chunkLen = [c \in AiChunks |-> 0]
  /\ InitTapVars
  /\ InitUnitVars

SpecTap == InitTap /\ [][NextTap]_vars

(***************************************************************************)
(* The page's peer connections around the inbound tap: completeSetup has   *)
(* drained the pre-relay FIFO and is about to install the tap; the page    *)
(* navigates, creates peer connections and receives tracks.                *)
(***************************************************************************)
NextPeer ==
  \/ FinishSetup
  \/ NavigateStart
  \/ NavigateEnd
  \/ NewPeerConnection
  \/ TrackEvent

InitPeer ==
  /\ InitConnectedClient
  /\ bpc = "tap"
  /\ isRunning = FALSE
  /\ audioDataQueue = <<>>
  /\ flushIter = 0
  /\ navigating = FALSE
  /\ navs = 0
  /\ micQueue = <<>>
  /\ remoteQueue = <<>>
  /\ captureOn = FALSE
  /\ relayExposed = TRUE
  /\ aiN = 0
  /\ capN = 0
  /\ micPushLog = <<>>
  /\ heldEver = {}
  /\ relayLog = <<>>
  /\ sendAudioCalls = <<>>
  /\ drainDone = TRUE
  /\ drainedEntries = <<>>
  /\ micInit = FALSE
  /\ micOut = <<>>
  /\ chunkLen = [c \in AiChunks |-> 0]
  /\ InitTapVars
  /\ InitUnitVars

SpecPeer == InitPeer /\ [][NextPeer]_vars

(***************************************************************************)
(* Claims about the Streaming Voice Client (checked under SpecClient).     *)
(***************************************************************************)

\* C1: a sendAudio call made while the transport is not open, or before the
\* provider's ready acknowledgment was received on the current transport,
\* sends nothing and changes no client state; a call made while Ready sends
\* exactly one audio message on the current transport.
C1_SendAudioOnlyWhenReady ==
  [][SendAudio =>
       IF ReadyOnCurrent
       THEN /\ sent' = [sent EXCEPT ![ws] = Append(@, "audio")]
            /\ audioSendCount' = audioSendCount + 1
       ELSE UNCHANGED clientVars]_vars

\* C2: isConnected() is true only if the transport is open and the ready
\* acknowledgment has been received on that transport.
C2_ConnectedOnlyAfterAck == IsConnected => ReadyOnCurrent

\* C3: once close() has been called (and the owner has not called connect()
\* again) the reconnect logic of GeminiLiveClient makes no connect() call,
\* whatever timers are pending and whatever transport events follow.
C3_NoReconnectAfterClose ==
  [][closeCalled => reconnectConnectCalls' = reconnectConnectCalls]_vars

\* C3 witness: two transports have closed, close() was called, a reconnect
\* timer that was pending fired and found the flag, and the reconnect logic
\* never connected.
C3_Witness ==
  /\ provider = "GEMINI"
  /\ closeCalled
  /\ suppressed
  /\ timers = 0
  /\ nSockets = 2
  /\ \A s \in 1..2 : rs[s] = "CLOSED"
  /\ reconnectConnectCalls = 0

(***************************************************************************)
(* Claims about the AudioBridge and the page.                              *)
(***************************************************************************)

\* C4: captured room audio reaches the client's send path in the order the
\* capture callback produced it, across the switch from queueing to direct
\* relay calls; chunk ids are capture order, so the sendAudio calls must be
\* strictly increasing (no reordering, no chunk twice).
C4_CaptureOrderKept == StrictlyIncreasing(sendAudioCalls)

\* C5: the chunks appended to the page's synthetic-microphone queue appear
\* in the order in which the client delivered them to the bridge's handler
\* (chunk ids are delivery order), held-and-flushed chunks included.
C5_AiOrderKept == StrictlyIncreasing(micPushLog)

\* C6: the pre-relay FIFO never holds more than 1000 entries, and a push
\* attempted while it holds 1000 and there is no relay leaves it unchanged.
C6_FifoBounded ==
  /\ [](Len(remoteQueue) <= RemoteQueueCap)
  /\ [][(~relayExposed /\ Len(remoteQueue) = RemoteQueueCap
         /\ capN' = capN + 1) => remoteQueue' = remoteQueue]_vars

\* C6 witness: the FIFO is full, there is no relay yet and one more block
\* was produced (and discarded).
C6_Witness ==
  /\ Len(remoteQueue) = RemoteQueueCap
  /\ ~relayExposed
  /\ capN = RemoteQueueCap + 1

\* C7: once the relay exists the FIFO only ever empties (nothing is
\* appended to it), it holds its entries in push order, and after the drain
\* the relay has received every drained entry exactly once, in that order;
\* when the page never navigated, every captured block reached the relay
\* exactly once.
C7_FifoDrainedOnceInOrder ==
  /\ [](StrictlyIncreasing(remoteQueue))
  /\ [](drainDone =>
          Restrict(relayLog, Range(drainedEntries)) = drainedEntries)
  /\ [](drainDone /\ navs = 0 =>
          Range(relayLog) = 1..capN /\ Len(relayLog) = capN)
  /\ [][relayExposed =>
          (remoteQueue' = remoteQueue \/ remoteQueue' = <<>>)]_vars

\* C7 witness: two queued blocks were drained, in order, and nothing else
\* reached the relay before them.
C7_Witness ==
  /\ drainDone
  /\ drainedEntries = <<1, 2>>
  /\ relayLog = <<1, 2>>
  /\ remoteQueue = <<>>

\* the synthetic microphone emitted block i for a chunk
EmitsChunk(i) == micOut[i].chunk # 0

\* the chunks the synthetic microphone emitted, in emission order
RECURSIVE EmittedChunks(_)
EmittedChunks(q) ==
  IF q = <<>> THEN <<>>
  ELSE IF Head(q).chunk # 0 THEN <<Head(q).chunk>> \o EmittedChunks(Tail(q))
       ELSE EmittedChunks(Tail(q))

\* C8: a tick on a non-empty queue emits exactly the oldest chunk's samples,
\* all of them (none truncated); the chunks are emitted in push order, each
\* once, none skipped (from the construction of the stream on, the emitted
\* chunks followed by the queued ones are the pushed ones).
C8_MicEmitsWholeChunksInOrder ==
  /\ \A i \in 1..Len(micOut) :
        EmitsChunk(i) => micOut[i].written = micOut[i].samples
  /\ StrictlyIncreasing(EmittedChunks(micOut) \o micQueue)

\* C9: when the bridge call of the audio handler fails on a destroyed
\* execution context, the chunk is appended to the Node-side queue, the
\* chunks already held stay as they are, and neither the client nor the
\* bridge's progress is disturbed.
C9_FailedChunkIsHeld ==
  [][(aiN' = aiN + 1 /\ bpc # "new" /\ BridgeCallOutcome = "destroyed") =>
       /\ audioDataQueue' = Append(audioDataQueue, aiN + 1)
       /\ UNCHANGED <<clientVars, bpc, isRunning, micQueue>>]_vars

\* C9 witness: two chunks failed one after the other and are both held.
C9_Witness ==
  /\ navigating
  /\ audioDataQueue = <<1, 2>>
  /\ heldEver = {1, 2}

\* completeSetup's flush of the held chunks is still to come or under way
FlushAhead == bpc \in {"handler", "flush"}

\* C10: no chunk whose bridge call failed is lost or stranded: it has been
\* appended to the page queue, or it is still held and a flush is to come.
C10_HeldChunksAreDelivered ==
  \A c \in heldEver :
     \/ c \in Range(micPushLog)
     \/ c \in Range(audioDataQueue) /\ FlushAhead

(***************************************************************************)
(* Claims about the reconnect policy of GeminiLiveClient.                  *)
(***************************************************************************)
\* the reconnect delays scheduled so far, oldest first
ScheduledDelays == SelectSeq(reconnectLog, LAMBDA d : d # 0)

\* the position of entry i of the log within its run of consecutive
\* reconnect attempts (attempts since the last transport open)
RECURSIVE AttemptNumber(_)
AttemptNumber(i) ==
  IF i = 0 \/ reconnectLog[i] = 0 THEN 0 ELSE 1 + AttemptNumber(i - 1)

\* C11: the delay scheduled for the n-th consecutive reconnect attempt of
\* GeminiLiveClient is min(2000 n, 30000) milliseconds, so no scheduled
\* delay exceeds 30000 ms.
C11_BackoffLinearCapped ==
  \A i \in 1..Len(reconnectLog) :
    reconnectLog[i] # 0 =>
      /\ reconnectLog[i] =
           (IF 2000 * AttemptNumber(i) < 30000
            THEN 2000 * AttemptNumber(i) ELSE 30000)
      /\ reconnectLog[i] <= 30000

\* sixteen consecutive failed attempts: the 16th delay is capped
C11_Witness ==
  /\ reconnectAttempts = 16
  /\ Len(ScheduledDelays) = 16
  /\ ScheduledDelays[14] = 28000
  /\ ScheduledDelays[16] = 30000

\* C12: as long as close() is not called, each reconnect delay scheduled by
\* GeminiLiveClient is at least the previously scheduled one.
C12_DelaysNonDecreasing ==
  ~closeCalled =>
    \A i, j \in 1..Len(ScheduledDelays) :
      i < j => ScheduledDelays[i] <= ScheduledDelays[j]

\* the run has used every transport it may create and none is still alive
OutOfSockets ==
  /\ nSockets + 1 \notin DOMAIN rs
  /\ \A s \in DOMAIN rs : rs[s] \in {"CLOSING", "CLOSED"}

\* C13: every transport closure of GeminiLiveClient that happens while
\* close() has not been called schedules one more reconnect, whatever the
\* number of attempts made so far, and a scheduled reconnect eventually
\* calls connect() unless close() is called first.
C13_EveryDropSchedulesReconnect ==
  /\ [][(/\ provider = "GEMINI"
         /\ ~closeCalled
         /\ \E s \in DOMAIN rs : rs[s] # "CLOSED" /\ rs'[s] = "CLOSED")
        => /\ timers' = timers + 1
           /\ reconnectAttempts' = reconnectAttempts + 1]_vars
  /\ \A c \in 0..MaxSockets :
       (provider = "GEMINI" /\ timers > 0 /\ reconnectConnectCalls = c)
         ~> (\/ reconnectConnectCalls > c
             \/ closeCalled
             \/ nSockets + 1 \notin DOMAIN rs)

\* the transport of a reconnect attempt failed, and the next attempt is
\* scheduled
C13_Witness ==
  /\ provider = "GEMINI"
  /\ ~closeCalled
  /\ reconnectConnectCalls = 1
  /\ rs[2] = "CLOSED"
  /\ sent[2] = <<>>
  /\ reconnectAttempts = 2
  /\ timers = 1

\* isConnected() was true on transport s at some time
WasReady(s) ==
  IF provider = "GEMINI" THEN sent[s] # <<>>
  ELSE acked[s] /\ sent[s] # <<>>

\* a transport that was Ready closed, the owner did not call close()
Dropped ==
  /\ ~closeCalled
  /\ ws = 0
  /\ \E s \in DOMAIN rs : rs[s] = "CLOSED" /\ WasReady(s)

\* C14: for both client variants, after a Ready transport closed
\* unexpectedly the client is eventually Ready again without the owner
\* connecting, unless close() is called.
C14_ReturnsToReady ==
  Dropped ~> (IsConnected \/ closeCalled \/ OutOfSockets)
\* some transport is connecting, open or closing
LiveTransport == \E s \in DOMAIN rs : rs[s] \in {"CONNECTING", "OPEN", "CLOSING"}

\* C15: once close() has been called no later call or event creates a
\* transport or makes the client Ready again, and GeminiLiveClient is never
\* left with neither a live transport nor a scheduled reconnect unless
\* close() was called.
C15_ClosedIsTerminal ==
  /\ [][closeCalled => (nSockets' = nSockets /\ ~IsConnected')]_vars
  /\ []((provider = "GEMINI" /\ nSockets > 0 /\ ~LiveTransport /\ timers = 0)
          => closeCalled)

\* C16: close() leaves no transport connecting or open and no reference to
\* one, also when a reconnect timer is pending or a reconnect's transport is
\* connecting; after it no reconnect calls connect(); a further close()
\* changes no state.
C16_CloseIdempotentNotBlocked ==
  /\ [][(~closeCalled /\ closeCalled')
          => /\ ws' = 0
             /\ \A s \in DOMAIN rs : rs'[s] \notin {"CONNECTING", "OPEN"}
             /\ timers' = timers]_vars
  /\ [][closeCalled => /\ reconnectConnectCalls' = reconnectConnectCalls
                       /\ nSockets' = nSockets]_vars
  /\ [][(closeCalled /\ Close /\ UNCHANGED bridgeVars)
          => UNCHANGED vars]_vars
(***************************************************************************)
(* Claims about completeSetup, stop and the peer-connection tap.           *)
(***************************************************************************)
\* C17: a stop() on a running bridge leaves it inactive whether or not the
\* page call succeeded; the cleanup callback runs at most once; a stop() on
\* a bridge that is not running makes no page call, raises nothing and
\* changes nothing.
C17_StopIdempotent ==
  /\ [][(stopCalls' = stopCalls + 1 /\ isRunning) => ~isRunning']_vars
  /\ [](cleanupCalls <= 1)
  /\ [][(stopCalls' = stopCalls + 1 /\ ~isRunning)
          => /\ stopPageCalls' = stopPageCalls
             /\ ~stopThrew'
             /\ UNCHANGED <<bpc, isRunning, tapMode, cleanupSet,
                            cleanupCalls>>]_vars

InCompleteSetup == bpc \in {"flush", "expose", "drain", "tap"}

\* C18: completeSetup always ends by marking the bridge running, also when
\* exposing the relay, draining the FIFO or installing the tap fails, and
\* the handler of setupBeforeLogin goes on pushing every AI chunk into the
\* page whenever the page can be reached.
C18_CompleteSetupNeverFails ==
  /\ [][(InCompleteSetup /\ ~InCompleteSetup')
          => (bpc' = "running" /\ isRunning')]_vars
  /\ [][(aiN' = aiN + 1 /\ BridgeCallOutcome = "ok")
          => micPushLog' = Append(micPushLog, aiN + 1)]_vars

\* the drain failed on a navigating page, the bridge runs without inbound
\* tap, and both AI chunks reached the page
C18_Witness ==
  /\ bpc = "running"
  /\ isRunning
  /\ relayExposed
  /\ ~drainDone
  /\ tapMode = "none"
  /\ ~navigating
  /\ micPushLog = <<1, 2>>

\* C19: a track event on a peer connection created after the fallback was
\* installed builds exactly one capture graph when the track is audio and
\* none otherwise.
C19_OneGraphPerAudioTrack ==
  \A i \in 1..Len(graphs) :
    graphs[i].fallback =>
      graphs[i].n = (IF graphs[i].kind = "audio" THEN 1 ELSE 0)
(***************************************************************************)
(* Claims about connect().                                                 *)
(***************************************************************************)
\* C20: a connect() made while the current transport is open, by the owner
\* or by a reconnect timer, creates no transport, sends nothing, schedules
\* nothing and changes no field of the client, for both variants.
C20_ConnectIdempotentWhenOpen ==
  [][(IsOpen /\ (Connect \/ ReconnectTimer))
       => /\ UNCHANGED <<provider, ws, rs, nSockets, ready,
                         isIntentionallyClosed, reconnectAttempts,
                         audioSendCount, sent, acked, reconnectLog>>
          /\ timers' <= timers]_vars

\* the owner reconnected by hand after a drop, the transport opened, and
\* the reconnect timer's connect() then found it open
C20_Witness ==
  /\ connectReturnedEarly
  /\ reconnectConnectCalls = 1
  /\ IsOpen
  /\ ws = 2
  /\ nSockets = 2
  /\ timers = 0

(***************************************************************************)
(* Callbacks of the Streaming Voice Client: registration, the provider's   *)
(* messages and what reaches the registered handlers.                      *)
(***************************************************************************)
Handlers == 1..MaxHandlers

\* the parts of a content message: a part carries base64 audio
\* (part.inlineData.data, output.audio.data, message.delta) or text only
PartKinds == {"audio", "text"}

\* mutant of OnAudioMessageSlot: the first registration is kept
OnAudioMessageSlot_FirstWins(h) ==
  messageHandler' = IF messageHandler = 0 THEN h ELSE messageHandler

\* onAudioMessage(handler): this.messageHandler = handler
OnAudioMessageSlot(h) == messageHandler' = h

\* onAudioMessage(handler) with a handler that was not registered before
OnAudioMessage ==
  /\ audioRegs < MaxHandlers
  /\ audioRegs' = audioRegs + 1
  /\ OnAudioMessageSlot(audioRegs + 1)
  /\ UNCHANGED <<errorHandler, audioCalls, fragN, unheard, malformedN,
                 errorRegs, errorCalls, promise>>
  /\ UNCHANGED <<provider, ws, rs, nSockets, ready, isIntentionallyClosed,
                 reconnectAttempts, timers, audioSendCount, sent, acked,
                 closeCalled, reconnectConnectCalls, suppressed,
                 reconnectLog, connectReturnedEarly>>

\* onError(handler): this.errorHandler = handler
OnErrorSlot(h) == errorHandler' = h

\* onError(handler) with a handler that was not registered before
OnError ==
  /\ errorRegs < MaxHandlers
  /\ errorRegs' = errorRegs + 1
  /\ OnErrorSlot(errorRegs + 1)
  /\ UNCHANGED <<messageHandler, audioCalls, fragN, unheard, malformedN,
                 audioRegs, errorCalls, promise>>
  /\ UNCHANGED <<provider, ws, rs, nSockets, ready, isIntentionallyClosed,
                 reconnectAttempts, timers, audioSendCount, sent, acked,
                 closeCalled, reconnectConnectCalls, suppressed,
                 reconnectLog, connectReturnedEarly>>

\* the audio parts among the first k parts
AudioBefore(parts, k) == Cardinality({i \in 1..k : parts[i] = "audio"})

\* mutant of HandleParts: the handler is invoked once per message
RECURSIVE HandleParts_OncePerMessage(_, _, _)
HandleParts_OncePerMessage(parts, n, calls) ==
  IF parts = <<>> THEN calls
  ELSE IF Head(parts) = "audio"
       THEN IF messageHandler # 0
            THEN Append(calls, [h |-> messageHandler, frag |-> n + 1,
                                bad |-> malformedN])
            ELSE calls
       ELSE HandleParts_OncePerMessage(Tail(parts), n, calls)

\* the loop of handleMessage / handleResponse over the parts of a message:
\* every part that carries audio is passed to the handler, if one is set;
\* n fragments arrived before this part
RECURSIVE HandleParts(_, _, _)
HandleParts(parts, n, calls) ==
  IF parts = <<>> THEN calls
  ELSE IF Head(parts) = "audio"
       THEN HandleParts(Tail(parts), n + 1,
                        IF messageHandler # 0
                        THEN Append(calls, [h |-> messageHandler,
                                            frag |-> n + 1,
                                            bad |-> malformedN])
                        ELSE calls)
       ELSE HandleParts(Tail(parts), n, calls)

\* 'message' event of socket s carrying model output (Gemini serverContent
\* with modelTurn.parts, OpenAI response.delta / response.audio.delta)
WsContent(s, parts) ==
  /\ rs[s] \in {"OPEN", "CLOSING"}
  /\ fragN + AudioBefore(parts, Len(parts)) <= MaxFragments
  /\ audioCalls' = HandleParts(parts, fragN, audioCalls)
  /\ fragN' = fragN + AudioBefore(parts, Len(parts))
  /\ unheard' = IF messageHandler = 0
                THEN unheard \cup (fragN + 1 .. fragN')
                ELSE unheard
  /\ UNCHANGED <<messageHandler, errorHandler, malformedN, audioRegs,
                 errorRegs, errorCalls, promise>>
  /\ UNCHANGED <<provider, ws, rs, nSockets, ready, isIntentionallyClosed,
                 reconnectAttempts, timers, audioSendCount, sent, acked,
                 closeCalled, reconnectConnectCalls, suppressed,
                 reconnectLog, connectReturnedEarly>>

\* mutant of ParseFailure: the catch block reports to the error handler
ParseFailure_Reported == CallErrorHandler("parse")

\* the catch block around JSON.parse: console.error only
ParseFailure == UNCHANGED errorCalls

\* 'message' event of socket s whose data JSON.parse rejects
WsMalformed(s) ==
  /\ rs[s] \in {"OPEN", "CLOSING"}
  /\ malformedN < MaxMalformed
  /\ malformedN' = malformedN + 1
  /\ ParseFailure
  /\ UNCHANGED <<messageHandler, errorHandler, audioCalls, fragN, unheard,
                 audioRegs, errorRegs, promise>>
  /\ UNCHANGED <<provider, ws, rs, nSockets, ready, isIntentionallyClosed,
                 reconnectAttempts, timers, audioSendCount, sent, acked,
                 closeCalled, reconnectConnectCalls, suppressed,
                 reconnectLog, connectReturnedEarly>>

\* 'message' event of socket s carrying an OpenAI "error" event
WsProviderError(s) ==
  /\ provider = "OPENAI"
  /\ rs[s] \in {"OPEN", "CLOSING"}
  /\ Len(errorCalls) < MaxErrorCalls
  /\ CallErrorHandler("event")
  /\ UNCHANGED <<handlerVars, promise>>
  /\ UNCHANGED <<provider, ws, rs, nSockets, ready, isIntentionallyClosed,
                 reconnectAttempts, timers, audioSendCount, sent, acked,
                 closeCalled, reconnectConnectCalls, suppressed,
                 reconnectLog, connectReturnedEarly>>

Messages == UNION {[1..n -> PartKinds] : n \in 0..MaxParts}

(***************************************************************************)
(* Connection failures: the lifecycle of a client with an error handler.   *)
(***************************************************************************)

NextFailure ==
  \/ Connect /\ UNCHANGED bridgeVars
  \/ Close /\ UNCHANGED bridgeVars
  \/ ReconnectTimer /\ UNCHANGED bridgeVars
  \/ \E s \in Sockets : WsOpen(s) /\ UNCHANGED bridgeVars
  \/ \E s \in Sockets : WsAck(s) /\ UNCHANGED bridgeVars
  \/ \E s \in Sockets : WsError(s) /\ UNCHANGED bridgeVars
  \/ \E s \in Sockets : WsClose(s) /\ UNCHANGED bridgeVars
  \/ OnError /\ UNCHANGED bridgeVars

InitFailure ==
  /\ provider \in {"GEMINI", "OPENAI"}
  /\ InitClientVars
  /\ InitBridgeVars

SpecFailure == InitFailure /\ [][NextFailure]_vars

(***************************************************************************)
(* Provider messages on a connected client and the handlers they reach.    *)
(***************************************************************************)
HandlersWsContent ==
  \E s \in Sockets, parts \in Messages :
    WsContent(s, parts) /\ UNCHANGED bridgeVars
HandlersWsProviderError ==
  \E s \in Sockets : WsProviderError(s) /\ UNCHANGED bridgeVars

NextHandlers ==
  \/ Close /\ UNCHANGED bridgeVars
  \/ \E s \in Sockets : WsAck(s) /\ UNCHANGED bridgeVars
  \/ \E s \in Sockets : WsError(s) /\ UNCHANGED bridgeVars
  \/ \E s \in Sockets : WsClose(s) /\ UNCHANGED bridgeVars
  \/ OnAudioMessage /\ UNCHANGED bridgeVars
  \/ OnError /\ UNCHANGED bridgeVars
  \/ HandlersWsContent
  \/ \E s \in Sockets : WsMalformed(s) /\ UNCHANGED bridgeVars
  \/ HandlersWsProviderError

InitHandlers ==
  /\ InitConnectedClient
  /\ InitBridgeVars

SpecHandlers == InitHandlers /\ [][NextHandlers]_vars

(***************************************************************************)
(* Claims about connection failures and the client's callbacks.            *)
(***************************************************************************)
\* 'error' event of socket s before the socket opened
HandshakeError(s) == WsError(s) /\ rs[s] = "CONNECTING"

\* C21: when a transport reports an error before it opens, the promise of
\* the connect() that created it is rejected, the registered error handler
\* (if any) is invoked with the error, and isConnected() is false afterwards
C21_HandshakeErrorRejectsConnect ==
  [][\A s \in Sockets :
       HandshakeError(s) =>
         /\ promise'[s] = "rejected"
         /\ errorHandler # 0 =>
              errorCalls' = Append(errorCalls, [h |-> errorHandler, src |-> s])
         /\ ~IsConnected']_vars

\* the handler invocations a step adds to a log
NewCalls(log, logAfter) == {logAfter[i].h : i \in (Len(log) + 1)..Len(logAfter)}

\* C22: the audio and error callbacks are single slots where the last
\* registration wins: every audio fragment and every error is delivered
\* to the handler registered last, never to an earlier one
C22_LastRegistrationWins ==
  [][/\ NewCalls(audioCalls, audioCalls') \subseteq {audioRegs}
     /\ NewCalls(errorCalls, errorCalls') \subseteq {errorRegs}]_vars

\* a fragment and an error reached the first handlers, second handlers
\* were registered over them, and a later fragment and error reached those
C22_Witness ==
  /\ \E i, j \in 1..Len(audioCalls) :
       i < j /\ audioCalls[i].h = 1 /\ audioCalls[j].h = 2
  /\ \E i, j \in 1..Len(errorCalls) :
       i < j /\ errorCalls[i].h = 1 /\ errorCalls[j].h = 2

\* the fragments the audio handlers were invoked with, in invocation order
HeardFragments == [i \in 1..Len(audioCalls) |-> audioCalls[i].frag]

\* C23: the registered audio handler is invoked exactly once per inbound
\* audio fragment, in arrival order (part order within one message), and
\* never for a message without audio: the invocations are the fragments
\* that arrived while a handler was registered, each once, in order
C23_OncePerFragmentInOrder ==
  /\ StrictlyIncreasing(HeardFragments)
  /\ Range(HeardFragments) = (1..fragN) \ unheard
  /\ Len(audioCalls) + Cardinality(unheard) = fragN

\* two fragments of one message reached the handler on a ready transport
C23_Witness ==
  /\ Len(audioCalls) = 2
  /\ audioCalls[1].bad = audioCalls[2].bad
  /\ IsConnected

\* a step in which the client received an unparseable provider message
MalformedReceived == malformedN' # malformedN

\* C24: an unparseable provider message is discarded: the step that
\* receives it leaves every transport, the ready flag, both handler slots
\* and the reconnect state as they were, sends nothing and invokes neither
\* handler; fragments that arrive afterwards are still delivered
C24_MalformedMessageDiscarded ==
  [][/\ MalformedReceived =>
          UNCHANGED <<ws, rs, nSockets, ready, isIntentionallyClosed,
                      reconnectAttempts, timers, sent, acked, promise,
                      messageHandler, errorHandler, audioCalls,
                      errorCalls>>
     /\ malformedN > 0 /\ messageHandler # 0 =>
          Len(audioCalls') - Len(audioCalls) = fragN' - fragN]_vars

\* a fragment was delivered on the open, ready transport after an
\* unparseable message
C24_Witness ==
  /\ \E i \in 1..Len(audioCalls) : audioCalls[i].bad > 0
  /\ IsConnected

(***************************************************************************)
(* createRealtimeClient(config).                                           *)
(***************************************************************************)
FieldValues == 1..MaxFieldValues

\* config.gemini and config.openai when present: every field is required
\* by RealtimeVoiceConfig
GeminiBlocks ==
  [apiKey : FieldValues, modelName : FieldValues, voiceName : FieldValues,
   temperature : FieldValues, topP : FieldValues,
   systemInstructions : FieldValues]
OpenAIBlocks ==
  [apiKey : FieldValues, model : FieldValues, voice : FieldValues,
   temperature : FieldValues, topP : FieldValues,
   systemInstructions : FieldValues]

\* the defaults of the GeminiLiveClient constructor, as values outside
\* FieldValues
DefaultOf(field) == <<"default", field>>

\* new GeminiLiveClient(config): the constructor copies the fields
NewGeminiLiveClient(c) ==
  [class |-> "GeminiLiveClient",
   config |-> [apiKey |-> c.apiKey,
               modelName |-> Nullish(c.modelName, DefaultOf("modelName")),
               systemInstructions |->
                 Nullish(c.systemInstructions, DefaultOf("systemInstructions")),
               voiceName |-> Nullish(c.voiceName, DefaultOf("voiceName")),
               temperature |-> Nullish(c.temperature, DefaultOf("temperature")),
               topP |-> Nullish(c.topP, DefaultOf("topP"))]]

\* new OpenAIRealtimeClient(config): the constructor keeps the object
NewOpenAIRealtimeClient(c) ==
  [class |-> "OpenAIRealtimeClient", config |-> c]

\* throw new Error(...)
Thrown(why) == [class |-> "Error", config |-> why]

\* mutant of CreateRealtimeClient: an unknown provider falls back to Gemini
CreateRealtimeClient_FallsBackToGemini(cfg) ==
  IF cfg.provider = "OPENAI"
  THEN IF cfg.openai = <<>>
       THEN Thrown("openai")
       ELSE NewOpenAIRealtimeClient(
              [apiKey |-> cfg.openai[1].apiKey,
               model |-> cfg.openai[1].model,
               voice |-> cfg.openai[1].voice,
               temperature |-> cfg.openai[1].temperature,
               topP |-> cfg.openai[1].topP,
               systemInstructions |-> cfg.openai[1].systemInstructions])
  ELSE IF cfg.gemini = <<>>
       THEN Thrown("gemini")
       ELSE NewGeminiLiveClient(
              [apiKey |-> cfg.gemini[1].apiKey,
               modelName |-> cfg.gemini[1].modelName,
               voiceName |-> cfg.gemini[1].voiceName,
               temperature |-> cfg.gemini[1].temperature,
               topP |-> cfg.gemini[1].topP,
               systemInstructions |-> cfg.gemini[1].systemInstructions])

\* createRealtimeClient(config): the switch over config.provider; an
\* optional block is <<>> when absent and <<block>> when present
CreateRealtimeClient(cfg) ==
  IF cfg.provider = "GEMINI"
  THEN IF cfg.gemini = <<>>
       THEN Thrown("gemini")
       ELSE NewGeminiLiveClient(
              [apiKey |-> cfg.gemini[1].apiKey,
               modelName |-> cfg.gemini[1].modelName,
               voiceName |-> cfg.gemini[1].voiceName,
               temperature |-> cfg.gemini[1].temperature,
               topP |-> cfg.gemini[1].topP,
               systemInstructions |-> cfg.gemini[1].systemInstructions])
  ELSE IF cfg.provider = "OPENAI"
  THEN IF cfg.openai = <<>>
       THEN Thrown("openai")
       ELSE NewOpenAIRealtimeClient(
              [apiKey |-> cfg.openai[1].apiKey,
               model |-> cfg.openai[1].model,
               voice |-> cfg.openai[1].voice,
               temperature |-> cfg.openai[1].temperature,
               topP |-> cfg.openai[1].topP,
               systemInstructions |-> cfg.openai[1].systemInstructions])
  ELSE Thrown("provider")

\* the class a constructed client is modelled as
ProviderOfClass(class) ==
  IF class = "GeminiLiveClient" THEN "GEMINI"
  ELSE IF class = "OpenAIRealtimeClient" THEN "OPENAI"
  ELSE provider

\* a call of createRealtimeClient(config); a constructed client starts
\* with the field initialisers of its class
CallCreateRealtimeClient ==
  /\ Len(created) < MaxFactoryCalls
  /\ created' = Append(created, CreateRealtimeClient(config))
  /\ provider' = ProviderOfClass(CreateRealtimeClient(config).class)
  /\ UNCHANGED <<ws, rs, nSockets, ready, isIntentionallyClosed,
                 reconnectAttempts, timers, audioSendCount, sent, acked,
                 closeCalled, reconnectConnectCalls, suppressed,
                 reconnectLog, connectReturnedEarly, handlerVars, errorCalls,
                 promise>>
  /\ UNCHANGED <<bpc, isRunning, audioDataQueue, flushIter, navigating, navs,
                 micQueue, remoteQueue, captureOn, relayExposed, aiN, capN,
                 micPushLog, heldEver, relayLog, sendAudioCalls, drainDone,
                 drainedEntries, micVars, tapVars>>
  /\ UNCHANGED <<config, inputData, pcm16, outputData, micBuildLog, gumLog,
                 recVars>>

\* the block of the provider that is not selected: absent, or some block
OtherGemini == {<<>>, <<[apiKey |-> 1, modelName |-> 1, voiceName |-> 1,
                         temperature |-> 1, topP |-> 1,
                         systemInstructions |-> 1]>>}
OtherOpenAI == {<<>>, <<[apiKey |-> 1, model |-> 1, voice |-> 1,
                         temperature |-> 1, topP |-> 1,
                         systemInstructions |-> 1]>>}

\* the configurations of type RealtimeVoiceConfig, and a provider string
\* outside the type
Configs ==
  {[provider |-> "GEMINI", gemini |-> g, openai |-> o] :
     g \in {<<>>} \cup {<<b>> : b \in GeminiBlocks}, o \in OtherOpenAI}
  \cup
  {[provider |-> "OPENAI", gemini |-> g, openai |-> o] :
     g \in OtherGemini, o \in {<<>>} \cup {<<b>> : b \in OpenAIBlocks}}
  \cup
  {[provider |-> "OTHER", gemini |-> g, openai |-> o] :
     g \in OtherGemini, o \in OtherOpenAI}

NextFactory == CallCreateRealtimeClient

InitFactory ==
  /\ provider = "NONE"
  /\ InitClientVars
  /\ InitBridgeState
  /\ config \in Configs
  /\ created = <<>>
  /\ inputData = [num |-> 0, den |-> 1]
  /\ pcm16 = <<>>
  /\ outputData = <<>>
  /\ micBuildLog = <<>>
  /\ gumLog = <<>>
  /\ InitRecVars

SpecFactory == InitFactory /\ [][NextFactory]_vars

\* the client createRealtimeClient has to build for a configuration
ExpectedClient(cfg) ==
  IF cfg.provider = "GEMINI" /\ cfg.gemini # <<>>
  THEN [class |-> "GeminiLiveClient",
        config |-> [apiKey |-> cfg.gemini[1].apiKey,
                    modelName |-> cfg.gemini[1].modelName,
                    voiceName |-> cfg.gemini[1].voiceName,
                    temperature |-> cfg.gemini[1].temperature,
                    topP |-> cfg.gemini[1].topP,
                    systemInstructions |-> cfg.gemini[1].systemInstructions]]
  ELSE IF cfg.provider = "OPENAI" /\ cfg.openai # <<>>
  THEN [class |-> "OpenAIRealtimeClient",
        config |-> [apiKey |-> cfg.openai[1].apiKey,
                    model |-> cfg.openai[1].model,
                    voice |-> cfg.openai[1].voice,
                    temperature |-> cfg.openai[1].temperature,
                    topP |-> cfg.openai[1].topP,
                    systemInstructions |-> cfg.openai[1].systemInstructions]]
  ELSE [class |-> "Error"]

\* C25: createRealtimeClient maps GEMINI to a GeminiLiveClient and OPENAI
\* to an OpenAIRealtimeClient built from that provider's fields, throws when
\* the selected provider's block is absent or the provider is unknown, and
\* has no side effect: no transport, no timer, no message, and the
\* configuration is left as it was
C25_FactoryMapsProviderWithoutSideEffects ==
  /\ [](\A i \in 1..Len(created) :
          /\ created[i].class = ExpectedClient(config).class
          /\ created[i].class # "Error" =>
               created[i].config = ExpectedClient(config).config)
  /\ [](nSockets = 0 /\ ws = 0 /\ timers = 0 /\ reconnectAttempts = 0
        /\ \A s \in Sockets : sent[s] = <<>> /\ rs[s] = "NEW")
  /\ [][config' = config]_vars

\* the factory was called repeatedly for a configuration whose selected
\* block is present and returned equal clients
C25_Witness ==
  /\ Len(created) = MaxFactoryCalls
  /\ created[1].class # "Error"
  /\ created[1] = created[MaxFactoryCalls]

(***************************************************************************)
(* The getUserMedia override of the init script across the documents of    *)
(* the page.                                                               *)
(***************************************************************************)
GumGetUserMedia == \E audio \in BOOLEAN : GetUserMedia(audio)

NextGum ==
  \/ GumGetUserMedia
  \/ NavigateStart
  \/ NavigateEnd

SpecGum == InitMic /\ [][NextGum]_vars

\* C26: after the init script ran, every getUserMedia call that requests
\* audio resolves to the document's one synthetic stream, the same object on
\* every call, never to a device stream; the graph behind it is built at
\* the first call in the document and once per document
C26_OneSyntheticStreamPerPage ==
  /\ \A i \in 1..Len(gumLog) :
       gumLog[i].audio =>
         /\ gumLog[i].stream # 0
         /\ micBuildLog[gumLog[i].stream] = gumLog[i].doc
  /\ \A i, j \in 1..Len(gumLog) :
       gumLog[i].audio /\ gumLog[j].audio /\ gumLog[i].doc = gumLog[j].doc
         => gumLog[i].stream = gumLog[j].stream
  /\ \A i, j \in 1..Len(micBuildLog) :
       micBuildLog[i] = micBuildLog[j] => i = j
  /\ Range(micBuildLog) = {gumLog[i].doc : i \in 1..Len(gumLog)}

\* the application asked for audio twice in one document and again after
\* a navigation
C26_Witness ==
  \E i, j, k \in 1..Len(gumLog) :
    /\ i < j /\ j < k
    /\ gumLog[i].audio /\ gumLog[j].audio /\ gumLog[k].audio
    /\ gumLog[i].doc = gumLog[j].doc
    /\ gumLog[k].doc # gumLog[j].doc

(***************************************************************************)
(* PCM16 conversion of captured samples (three capture paths) and the      *)
(* decoder of the synthetic microphone.                                    *)
(***************************************************************************)
\* Math.max(-1, Math.min(1, x)) on a fraction
Clamp(x) == [num |-> Max(-x.den, Min(x.den, x.num)), den |-> x.den]

\* the integer part of a / b, b > 0, as a typed array takes it: rounded
\* toward zero
Truncate(a, b) == IF a >= 0 THEN a \div b ELSE (a + b - 1) \div b

\* storing an integer into an Int16Array element: modulo 2^16, signed
ToInt16(n) == ((n + 32768) % 65536) - 32768

\* mutant of ElementTapPcm16: one factor for both signs
ElementTapPcm16_OneScale(x) ==
  LET s == Clamp(x)
  IN  ToInt16(Truncate(s.num * PositiveScale, s.den))

\* the init script's peer-connection tap:
\* s = clamp(x); pcm16[i] = s < 0 ? s * 0x8000 : s * 0x7FFF
InitScriptPcm16(x) ==
  LET s == Clamp(x)
  IN  ToInt16(Truncate(IF s.num < 0 THEN s.num * NegativeScale
                       ELSE s.num * PositiveScale, s.den))

\* the audio-element tap of setupOViceToGeminiStream
ElementTapPcm16(x) ==
  LET s == Clamp(x)
  IN  ToInt16(Truncate(IF s.num < 0 THEN s.num * NegativeScale
                       ELSE s.num * PositiveScale, s.den))

\* the fallback peer-connection tap of setupWebRTCAudioCapture
FallbackTapPcm16(x) ==
  LET s == Clamp(x)
  IN  ToInt16(Truncate(IF s.num < 0 THEN s.num * NegativeScale
                       ELSE s.num * PositiveScale, s.den))

CapturePaths == {"initScript", "element", "fallback"}

PathPcm16(path, x) ==
  CASE path = "initScript" -> InitScriptPcm16(x)
    [] path = "element" -> ElementTapPcm16(x)
    [] path = "fallback" -> FallbackTapPcm16(x)

\* new Uint8Array(pcm16.buffer): the two bytes of an element, low byte first
Int16Bytes(v) == <<(v % 65536) % 256, (v % 65536) \div 256>>

\* btoa of the two-byte string: three base64 digits and the padding (64)
Btoa(bytes) ==
  <<bytes[1] \div 4, (bytes[1] % 4) * 16 + bytes[2] \div 16,
    (bytes[2] % 16) * 4, 64>>

\* atob of a four-character group that ends in padding
Atob(b64) ==
  <<b64[1] * 4 + b64[2] \div 16, (b64[2] % 16) * 16 + b64[3] \div 4>>

\* new Int16Array(bytes.buffer)[i]
BytesInt16(bytes) == ToInt16(bytes[1] + 256 * bytes[2])

\* the synthetic microphone's decoder: outputData[i] = int16Array[i] / 32768.0
MicDecode(b64) == [num |-> BytesInt16(Atob(b64)), den |-> DecodeScale]

\* a capture path converts the sample inputData[i] of its block
EncodeSample(path) ==
  /\ \A i \in 1..Len(pcm16) : pcm16[i].path # path
  /\ pcm16' = Append(pcm16, [path |-> path,
                             value |-> PathPcm16(path, inputData),
                             base64 |-> Btoa(Int16Bytes(
                                          PathPcm16(path, inputData)))])
  /\ UNCHANGED <<config, created, inputData, outputData, micBuildLog, gumLog,
                 recVars>>
  /\ UNCHANGED <<bpc, isRunning, audioDataQueue, flushIter, navigating, navs,
                 micQueue, remoteQueue, captureOn, relayExposed, aiN, capN,
                 micPushLog, heldEver, relayLog, sendAudioCalls, drainDone,
                 drainedEntries, micVars, tapVars>>
  /\ UNCHANGED clientVars

InitScriptEncode == EncodeSample("initScript")
ElementTapEncode == EncodeSample("element")
FallbackTapEncode == EncodeSample("fallback")

\* the synthetic microphone decodes the next encoded sample
DecodeSample ==
  /\ Len(outputData) < Len(pcm16)
  /\ outputData' = Append(outputData,
                          MicDecode(pcm16[Len(outputData) + 1].base64))
  /\ UNCHANGED <<config, created, inputData, pcm16, micBuildLog, gumLog,
                 recVars>>
  /\ UNCHANGED <<bpc, isRunning, audioDataQueue, flushIter, navigating, navs,
                 micQueue, remoteQueue, captureOn, relayExposed, aiN, capN,
                 micPushLog, heldEver, relayLog, sendAudioCalls, drainDone,
                 drainedEntries, micVars, tapVars>>
  /\ UNCHANGED clientVars

\* sample values around -1, -3/4, 0, 3/4 and 1, some of them outside [-1, 1]
Samples ==
  {[num |-> a + d, den |-> SampleDen] :
     a \in {-SampleDen, -((3 * SampleDen) \div 4), 0,
            (3 * SampleDen) \div 4, SampleDen},
     d \in -SampleRadius..SampleRadius}

NextPcm ==
  \/ InitScriptEncode
  \/ ElementTapEncode
  \/ FallbackTapEncode
  \/ DecodeSample

InitPcm ==
  /\ InitConnectedClient
  /\ InitBridgeState
  /\ config = [provider |-> "NONE", gemini |-> <<>>, openai |-> <<>>]
  /\ created = <<>>
  /\ inputData \in Samples
  /\ pcm16 = <<>>
  /\ outputData = <<>>
  /\ micBuildLog = <<>>
  /\ gumLog = <<>>
  /\ InitRecVars

SpecPcm == InitPcm /\ [][NextPcm]_vars

\* C27: the capture-side conversion clamps to [-1, 1] and scales negative
\* samples by 0x8000 and the others by 0x7FFF: -1 and below give -32768,
\* 1 and above give 32767, 0 gives 0, a sample inside the range gives the
\* integer part of its scaled value (so nothing wraps around), and the
\* three capture paths give the same value
C27_Pcm16ClampsAndScales ==
  \A i \in 1..Len(pcm16) :
    LET v == pcm16[i].value
        n == inputData.num
        d == inputData.den
    IN  /\ n <= -d => v = -32768
        /\ n >= d => v = 32767
        /\ n = 0 => v = 0
        /\ 0 <= n /\ n <= d => v * d <= n * 32767 /\ n * 32767 - v * d < d
        /\ -d <= n /\ n < 0 => v * d >= n * 32768 /\ v * d - n * 32768 < d
        /\ \A j \in 1..Len(pcm16) : pcm16[j].value = v

\* all three capture paths converted a sample that lies above 1
C27_Witness ==
  /\ Len(pcm16) = 3
  /\ inputData.num > inputData.den

\* sample steps (1 / SampleDen) per quantization step (1 / 32768)
StepsPerQuantum == SampleDen \div DecodeScale

\* the distance between a decoded sample and the captured one, in sample
\* steps
RoundTripError(out) ==
  LET e == out.num * (SampleDen \div out.den) - inputData.num
  IN  IF e < 0 THEN -e ELSE e

\* C28: PCM16 round trip: for a sample v in [-1, 1], encoding it with the
\* capture-side conversion and decoding the result with the synthetic
\* microphone's decoder gives v within one quantization step, 1/32768
C28_RoundTripWithinOneStep ==
  \A i \in 1..Len(outputData) :
    -inputData.den <= inputData.num /\ inputData.num <= inputData.den
      => RoundTripError(outputData[i]) <= StepsPerQuantum

(***************************************************************************)
(* The stages of completeSetup, as positions of the call: the flush of the *)
(* held AI audio, the exposure of the relay, the drain of the page's       *)
(* queue and the inbound tap.                                              *)
(***************************************************************************)
SetupOrder ==
  {<<"handler", "flush">>, <<"handler", "expose">>,
   <<"stopped", "flush">>, <<"stopped", "expose">>,
   <<"flush", "expose">>, <<"expose", "drain">>, <<"drain", "tap">>,
   <<"expose", "running">>, <<"drain", "running">>, <<"tap", "running">>,
   <<"running", "stopped">>}

\* C29: completeSetup flushes the held AI audio, then exposes the relay,
\* then drains the page's queue, then installs the inbound tap, each step
\* after the previous one has finished; the peer-connection tap is
\* installed only when the page has no audio element, the element tap only
\* when it has one; and completeSetup on a running bridge repeats no step.
C29_SetupStepsInOrder ==
  [][/\ bpc' # bpc => <<bpc, bpc'>> \in SetupOrder
     /\ (bpc = "flush" /\ bpc' # bpc) =>
          flushIter > Len(audioDataQueue) /\ audioDataQueue' = <<>>
     /\ Len(audioDataQueue') < Len(audioDataQueue) => bpc = "flush"
     /\ relayExposed' # relayExposed =>
          bpc = "expose" /\ bpc' = "drain"
     /\ (drainDone' # drainDone \/ drainedEntries' # drainedEntries) =>
          bpc = "drain" /\ bpc' = "tap" /\ relayExposed
     /\ (tapMode' # tapMode /\ tapMode' # "none") =>
          bpc = "tap" /\ bpc' = "running" /\ drainDone
     /\ \A hasAudioElement, selectorFound \in BOOLEAN :
          FinishSetupWith(hasAudioElement, selectorFound) =>
            /\ tapMode' = "webrtc" => ~hasAudioElement
            /\ tapMode' = "element" /\ tapMode # "element" => hasAudioElement
     /\ (CompleteSetupStart /\ isRunning) =>
          UNCHANGED <<bpc, flushIter, audioDataQueue, micQueue, micPushLog,
                      relayExposed, relayLog, sendAudioCalls, remoteQueue,
                      drainDone, drainedEntries, tapMode, cleanupSet>>
    ]_vars

\* a completeSetup that flushed held audio, exposed the relay, drained the
\* page's queue and installed the element tap has returned
C29_Witness ==
  /\ bpc = "running"
  /\ isRunning
  /\ heldEver # {}
  /\ micPushLog # <<>>
  /\ audioDataQueue = <<>>
  /\ relayExposed
  /\ drainDone
  /\ tapMode = "element"

\* the session setup messages written on socket s: Gemini's setup message
\* and OpenAI's session.update
SetupMessages(s) ==
  Len(Restrict(sent[s], {"setup", "instr"}))

\* socket s has opened, and for OpenAI the provider has announced the
\* session on it
SessionDue(s) ==
  /\ promise[s] = "resolved"
  /\ provider = "OPENAI" => acked[s]

\* C30: on every transport that opens, the first one and every reconnect,
\* exactly one session setup message is sent, and no audio message is
\* sent on it before the setup message.
C30_OneSetupPerTransport ==
  \A s \in Sockets :
    /\ SetupMessages(s) <= 1
    /\ SessionDue(s) => SetupMessages(s) = 1
    /\ sent[s] # <<>> => sent[s][1] \in {"setup", "instr"}

(***************************************************************************)
(* The relay around a reconnect: completeSetup has returned with the relay *)
(* exposed and the peer-connection tap installed, a capture graph is       *)
(* processing, and the transport fails, closes and is connected again (by  *)
(* the reconnect timer, or by the owner).                                  *)
(***************************************************************************)
NextRelay ==
  \/ CaptureTick(MaxRelayCaptured)
  \/ Connect /\ UNCHANGED bridgeVars
  \/ ReconnectTimer /\ UNCHANGED bridgeVars
  \/ \E s \in Sockets : WsOpen(s) /\ UNCHANGED bridgeVars
  \/ \E s \in Sockets : WsAck(s) /\ UNCHANGED bridgeVars
  \/ \E s \in Sockets : WsError(s) /\ UNCHANGED bridgeVars
  \/ \E s \in Sockets : WsClose(s) /\ UNCHANGED bridgeVars

InitRelay ==
  /\ InitConnectedClient
  /\ bpc = "running"
  /\ isRunning = TRUE
  /\ audioDataQueue = <<>>
  /\ flushIter = 0
  /\ navigating = FALSE
  /\ navs = 0
  /\ micQueue = <<>>
  /\ remoteQueue = <<>>
  /\ captureOn = TRUE
  /\ relayExposed = TRUE
  /\ aiN = 0
  /\ capN = 0
  /\ micPushLog = <<>>
  /\ heldEver = {}
  /\ relayLog = <<>>
  /\ sendAudioCalls = <<>>
  /\ drainDone = TRUE
  /\ drainedEntries = <<>>
  /\ micInit = FALSE
  /\ micOut = <<>>
  /\ chunkLen = [c \in AiChunks |-> 0]
  /\ tapMode = "webrtc"
  /\ cleanupSet = FALSE
  /\ cleanupCalls = 0
  /\ stopCalls = 0
  /\ stopPageCalls = 0
  /\ stopThrew = FALSE
  /\ pcs = <<>>
  /\ graphs = <<>>
  /\ InitUnitVars

SpecRelay == InitRelay /\ [][NextRelay]_vars

\* the audio messages written on transports 1..n, and on all, so far
RECURSIVE AudioOn(_)
AudioOn(n) ==
  IF n = 0 THEN 0 ELSE Len(Restrict(sent[n], {"audio"})) + AudioOn(n - 1)

AudioSent == AudioOn(MaxSockets)

\* C31: a captured chunk that reaches the relay while the client is not
\* connected is dropped: the relay does not call sendAudio for it, nothing
\* is written for it, and it is never sent later; the chunks passed to
\* sendAudio are exactly those that reached the relay while connected.
C31_DroppedWhileNotConnected ==
  [][/\ ~IsConnected =>
          sendAudioCalls' = sendAudioCalls /\ AudioSent' = AudioSent
     /\ sendAudioCalls' # sendAudioCalls =>
          /\ relayLog' # relayLog
          /\ sendAudioCalls' =
               sendAudioCalls \o
                 SubSeq(relayLog', Len(relayLog) + 1, Len(relayLog'))
     /\ (IsConnected /\ relayLog' # relayLog) =>
          Len(sendAudioCalls') - Len(sendAudioCalls) =
            Len(relayLog') - Len(relayLog)
     /\ AudioSent' = Len(sendAudioCalls')
     /\ StrictlyIncreasing(relayLog')
    ]_vars

\* a chunk was dropped during the outage and a later one was sent on the
\* transport of the reconnect
C31_Witness ==
  /\ IsConnected
  /\ ws = 2
  /\ \E i, j \in 1..Len(relayLog) :
       /\ i < j
       /\ relayLog[i] \notin Range(sendAudioCalls)
       /\ relayLog[j] \in Range(sendAudioCalls)
  /\ Restrict(sent[2], {"audio"}) # <<>>

\* the transports that are connecting or open
LiveTransports == {s \in Sockets : rs[s] \in {"CONNECTING", "OPEN"}}

\* C32: at most one transport of the client is connecting or open at any
\* time, and the close event of a superseded transport neither clears the
\* client's current transport nor schedules a reconnect over it.
C32_OneLiveTransport ==
  [][/\ Cardinality(LiveTransports') <= 1
     /\ \A s \in Sockets :
          (WsClose(s) /\ ws # 0 /\ ws # s) =>
            ws' = ws /\ timers' = timers
    ]_vars

\* C33: at most one inbound tap path feeds the relay at a time: no capture
\* graph of a peer-connection track is processing in a document whose
\* audio-element capture was established, and no track event builds more
\* than one capture graph.
C33_OneTapPathFeedsRelay ==
  /\ ~(tapMode = "element" /\ captureOn)
  /\ \A i \in 1..Len(graphs) : graphs[i].n <= 1

\* the capture graphs built from peer-connection audio tracks so far
PeerGraphs == UNION {Range(graphs[i].built) : i \in 1..Len(graphs)}

\* C34 as stated: every capture graph built from a peer-connection audio
\* track, by the init script or by the fallback, ends in a zero-gain sink.
C34_EveryPeerGraphEndsInZeroGain ==
  \A g \in PeerGraphs : g.sinkGain = 0

\* C34, amended: no capture graph built from a peer-connection audio track
\* renders the tapped audio at the audible output: the init script's graph
\* ends in a zero-gain sink, and the fallback's graph, which has no gain
\* node, has a processor that writes no output.
C34_PeerGraphsRenderSilence ==
  \A g \in PeerGraphs :
    /\ RenderedLevel(g, 1) = 0
    /\ g.by = "initScript" => g.sinkGain = 0
    /\ g.by = "fallback" => ~g.writesOutput

\* one audio track built the init script's graph and the fallback's graph
C34_Witness ==
  \E i \in 1..Len(graphs) :
    /\ graphs[i].kind = "audio"
    /\ {g.by : g \in Range(graphs[i].built)} = {"initScript", "fallback"}

\* processor.onaudioprocess of the audio-element capture graph: one block
\* is converted and handed to the relay; the graph processes until the
\* cleanup callback disconnects it or the document is replaced
ElementCaptureTick(limit) ==
  /\ tapMode = "element"
  /\ cleanupSet
  /\ ~navigating
  /\ capN < limit
  /\ capN' = capN + 1
  /\ Relay(<<capN + 1>>)
  /\ UNCHANGED <<bpc, isRunning, audioDataQueue, flushIter, navigating, navs,
                 micQueue, remoteQueue, captureOn, relayExposed, aiN,
                 micPushLog, heldEver, drainDone, drainedEntries>>
  /\ UNCHANGED clientRest
  /\ UNCHANGED micVars
  /\ UNCHANGED <<tapVars, unitVars>>

(***************************************************************************)
(* stop() and the capture graphs: completeSetup installs the inbound tap,  *)
(* the page creates peer connections and receives tracks, the graphs       *)
(* produce blocks, and the owner calls stop().                             *)
(***************************************************************************)
NextStop ==
  \/ FinishSetup
  \/ NewPeerConnection
  \/ TrackEvent
  \/ CaptureTick(MaxRelayCaptured)
  \/ ElementCaptureTick(MaxRelayCaptured)
  \/ Stop

SpecStop == InitPeer /\ [][NextStop]_vars

\* C35: after stop() has completed on a running bridge no captured block
\* reaches the relay or is passed to the client.
C35_NothingForwardedAfterStop ==
  [][bpc = "stopped" =>
       sendAudioCalls' = sendAudioCalls /\ relayLog' = relayLog]_vars

\* the conversation prompts written on transports 1..n so far
RECURSIVE PromptsOn(_)
PromptsOn(n) ==
  IF n = 0 THEN 0 ELSE Len(Restrict(sent[n], {"conv"})) + PromptsOn(n - 1)

\* mutant of StartConversationSends: both classes write a prompt
StartConversationSends_AnyProvider == IsOpen /\ ready

\* startConversation(): GeminiLiveClient writes its prompt when the
\* transport is open and the session started; OpenAIRealtimeClient, which
\* relies on the server's voice activity detection, only logs
StartConversationSends == provider = "GEMINI" /\ IsOpen /\ ready

\* startConversation() called by the owner of the client
StartConversation ==
  /\ PromptsOn(MaxSockets) < MaxConversations
  /\ IF StartConversationSends
     THEN Send(ws, "conv")
     ELSE UNCHANGED sent
  /\ UNCHANGED <<provider, ws, rs, nSockets, ready, isIntentionallyClosed,
                 reconnectAttempts, timers, audioSendCount, acked,
                 closeCalled, reconnectConnectCalls, suppressed, reconnectLog,
                 connectReturnedEarly, handlerVars, errorCalls, promise>>

(***************************************************************************)
(* startConversation() at any point of the client's life: the owner        *)
(* connects, closes and starts the conversation while the transport opens, *)
(* is acknowledged, fails and closes, and reconnect timers fire.           *)
(***************************************************************************)
NextConversation ==
  \/ Connect /\ UNCHANGED bridgeVars
  \/ Close /\ UNCHANGED bridgeVars
  \/ StartConversation /\ UNCHANGED bridgeVars
  \/ ReconnectTimer /\ UNCHANGED bridgeVars
  \/ \E s \in Sockets : WsOpen(s) /\ UNCHANGED bridgeVars
  \/ \E s \in Sockets : WsAck(s) /\ UNCHANGED bridgeVars
  \/ \E s \in Sockets : WsError(s) /\ UNCHANGED bridgeVars
  \/ \E s \in Sockets : WsClose(s) /\ UNCHANGED bridgeVars

SpecConversation == InitClient /\ [][NextConversation]_vars

C37_OneSampleRatePerSession ==
  /\ tapMode = "element" => ElementGraph.rate = InitScriptSampleRate
  /\ \A g \in PeerGraphs : g.rate = InitScriptSampleRate

(***************************************************************************)
(* Callbacks across automatic reconnects: the client is connected and the  *)
(* bridge has registered its audio and error callbacks; the transport      *)
(* fails and closes, the reconnect timer connects again, and the provider  *)
(* sends model output on the transports the reconnects created.            *)
(***************************************************************************)
Reconnects == Sockets \ {1}

NextRegistered ==
  \/ ReconnectTimer /\ UNCHANGED bridgeVars
  \/ \E s \in Sockets : WsOpen(s) /\ UNCHANGED bridgeVars
  \/ \E s \in Sockets : WsAck(s) /\ UNCHANGED bridgeVars
  \/ \E s \in Sockets : WsError(s) /\ UNCHANGED bridgeVars
  \/ \E s \in Sockets : WsClose(s) /\ UNCHANGED bridgeVars
  \/ \E s \in Reconnects, parts \in Messages :
       WsContent(s, parts) /\ UNCHANGED bridgeVars
  \/ \E s \in Reconnects : WsMalformed(s) /\ UNCHANGED bridgeVars

InitRegistered ==
  /\ provider \in {"GEMINI", "OPENAI"}
  /\ messageHandler = 1
  /\ errorHandler = 1
  /\ audioCalls = <<>>
  /\ fragN = 0
  /\ unheard = {}
  /\ malformedN = 0
  /\ audioRegs = 1
  /\ errorRegs = 1
  /\ errorCalls = <<>>
  /\ promise = [s \in Sockets |-> IF s = 1 THEN "resolved" ELSE "none"]
  /\ ws = 1
  /\ rs = [s \in Sockets |-> IF s = 1 THEN "OPEN" ELSE "NEW"]
  /\ nSockets = 1
  /\ ready = (provider = "GEMINI")
  /\ isIntentionallyClosed = FALSE
  /\ reconnectAttempts = 0
  /\ timers = 0
  /\ audioSendCount = 0
  /\ sent = [s \in Sockets |->
               IF s = 1 /\ provider = "GEMINI" THEN <<"setup">> ELSE <<>>]
  /\ acked = [s \in Sockets |-> FALSE]
  /\ closeCalled = FALSE
  /\ reconnectConnectCalls = 0
  /\ suppressed = FALSE
  /\ reconnectLog = (IF provider = "GEMINI" THEN <<0>> ELSE <<>>)
  /\ connectReturnedEarly = FALSE
  /\ InitBridgeVars

SpecRegistered == InitRegistered /\ [][NextRegistered]_vars

\* C38: the callbacks registered before a disconnect stay registered
\* across automatic reconnects without being registered again, and every
\* audio fragment that arrives on a reconnect's transport is delivered to
\* the audio callback registered before, every failure of such a transport
\* to the error callback registered before.
C38_HandlersSurviveReconnect ==
  [][/\ messageHandler' = 1 /\ errorHandler' = 1
     /\ audioRegs' = 1 /\ errorRegs' = 1
     /\ \A s \in Reconnects, parts \in Messages :
          WsContent(s, parts) =>
            /\ Len(audioCalls') =
                 Len(audioCalls) + AudioBefore(parts, Len(parts))
            /\ \A i \in (Len(audioCalls) + 1)..Len(audioCalls') :
                 audioCalls'[i].h = 1
     /\ \A s \in Reconnects :
          WsError(s) =>
            errorCalls' = Append(errorCalls, [h |-> 1, src |-> s])
    ]_vars

\* two fragments that arrived on the transport of a reconnect were
\* delivered to the callback registered before the disconnect
C38_Witness ==
  /\ reconnectConnectCalls > 0
  /\ rs[1] = "CLOSED"
  /\ Len(audioCalls) = 2
  /\ \A i \in 1..Len(audioCalls) : audioCalls[i].h = 1
  /\ audioRegs = 1

\* C39: the lazy construction of the synthetic stream by the first
\* getUserMedia call of a document leaves the page's queue of AI chunks as
\* it was: every chunk pushed before is still there, in order.
C39_LazyInitKeepsQueue ==
  [][(~micInit /\ micInit') => micQueue' = micQueue]_vars

\* ---------------------------------------------------------------------
\* The file recorder of startAudioCapture
\* ---------------------------------------------------------------------

MaxRecorderChunks == 3
MaxRecorderStops == 3

\* the test of the oviceOnAudioChunk callback: !stopped && chunk.length > 0
ChunkWritten(chunkLength) == ~stopped /\ chunkLength > 0

\* the page's recorder hands a chunk to oviceOnAudioChunk; the exposed
\* function survives navigations and its calls may arrive at any time,
\* also while stop() is waiting and after it has settled
OviceOnAudioChunk ==
  /\ recChunks < MaxRecorderChunks
  /\ recChunks' = recChunks + 1
  /\ \E chunkLength \in 0..1 :
       recWrites' = IF ChunkWritten(chunkLength)
                    THEN Append(recWrites, recChunks + 1)
                    ELSE recWrites
  /\ UNCHANGED <<stopped, recPc, writerEnds, recStops>>
  /\ UNCHANGED <<config, created, inputData, pcm16, outputData, micBuildLog,
                 gumLog>>
  /\ UNCHANGED <<bpc, isRunning, audioDataQueue, flushIter, navigating, navs,
                 micQueue, remoteQueue, captureOn, relayExposed, aiN, capN,
                 micPushLog, heldEver, relayLog, sendAudioCalls, drainDone,
                 drainedEntries, micVars, tapVars>>
  /\ UNCHANGED clientVars

\* stop() up to its first await: it returns when stopped is set, otherwise
\* it sets the flag and issues the page.evaluate of the cleanup
RecorderStop ==
  /\ recStops < MaxRecorderStops
  /\ recStops' = recStops + 1
  /\ IF stopped
     THEN UNCHANGED <<stopped, recPc>>
     ELSE /\ stopped' = TRUE
          /\ recPc' = "cleanup"
  /\ UNCHANGED <<recChunks, recWrites, writerEnds>>
  /\ UNCHANGED <<config, created, inputData, pcm16, outputData, micBuildLog,
                 gumLog>>
  /\ UNCHANGED <<bpc, isRunning, audioDataQueue, flushIter, navigating, navs,
                 micQueue, remoteQueue, captureOn, relayExposed, aiN, capN,
                 micPushLog, heldEver, relayLog, sendAudioCalls, drainDone,
                 drainedEntries, micVars, tapVars>>
  /\ UNCHANGED clientVars

\* the page.evaluate of stop() settles: when it resolves stop() goes on to
\* writer.end, when it rejects stop() rejects there (it has no try/catch)
RecorderCleanup ==
  /\ recPc = "cleanup"
  /\ recPc' = IF BridgeCallOutcome = "ok" THEN "ending" ELSE "threw"
  /\ UNCHANGED <<stopped, recChunks, recWrites, writerEnds, recStops>>
  /\ UNCHANGED <<config, created, inputData, pcm16, outputData, micBuildLog,
                 gumLog>>
  /\ UNCHANGED <<bpc, isRunning, audioDataQueue, flushIter, navigating, navs,
                 micQueue, remoteQueue, captureOn, relayExposed, aiN, capN,
                 micPushLog, heldEver, relayLog, sendAudioCalls, drainDone,
                 drainedEntries, micVars, tapVars>>
  /\ UNCHANGED clientVars

\* writer.end(resolve): the stream is ended and stop() resolves
RecorderEnd ==
  /\ recPc = "ending"
  /\ writerEnds' = writerEnds + 1
  /\ recPc' = "returned"
  /\ UNCHANGED <<stopped, recChunks, recWrites, recStops>>
  /\ UNCHANGED <<config, created, inputData, pcm16, outputData, micBuildLog,
                 gumLog>>
  /\ UNCHANGED <<bpc, isRunning, audioDataQueue, flushIter, navigating, navs,
                 micQueue, remoteQueue, captureOn, relayExposed, aiN, capN,
                 micPushLog, heldEver, relayLog, sendAudioCalls, drainDone,
                 drainedEntries, micVars, tapVars>>
  /\ UNCHANGED clientVars

NextRecorder ==
  \/ OviceOnAudioChunk
  \/ RecorderStop
  \/ RecorderCleanup
  \/ RecorderEnd
  \/ NavigateStart
  \/ NavigateEnd

InitRecorder ==
  /\ provider \in {"GEMINI", "OPENAI"}
  /\ InitClientVars
  /\ InitBridgeVars

SpecRecorder == InitRecorder /\ [][NextRecorder]_vars

\* the stop() call that set the flag has settled, by resolving or rejecting
RecorderStopSettled == recPc \in {"returned", "threw"}

\* C40: once stop() of the file recorder has been called no further chunk is
\* written to the output stream, the stream is never ended twice and is ended
\* once the stop() call has settled, and a stop() called when the flag is set
\* changes nothing of the recorder
C40_RecorderStopsOnce ==
  /\ [][stopped => recWrites' = recWrites]_vars
  /\ [](writerEnds <= 1)
  /\ [](RecorderStopSettled => writerEnds = 1)
  /\ [][(stopped /\ recStops' # recStops)
          => UNCHANGED <<stopped, recPc, recWrites, writerEnds>>]_vars

=============================================================================
